---- MODULE Spec2Model ----
(***************************************************************************)
(* Verification model of the browser-side client of the influencer studio: *)
(*   - SSEManager             (src/services/sse.ts)                        *)
(*   - HttpClient.makeRequest (src/services/http-client.ts)                *)
(*                                                                         *)
(* JavaScript is single-threaded: one task (a call from the application, a *)
(* transport event, a timer) runs to completion.  The manager calls code   *)
(* it does not own (subscriber callbacks, state listeners), and that code  *)
(* can call back into the manager in the middle of one of its methods.  A  *)
(* task is therefore a stack of pending instructions; the manager's own    *)
(* code runs in one step from one call-out to the next (Run), and the      *)
(* states of the model are the states some code outside the manager can    *)
(* see: between tasks, on entry to a callback, and on return of a call of  *)
(* the public interface.                                                   *)
(***************************************************************************)
EXTENDS Integers, Sequences, FiniteSets, TLC

\* ------------------------------------------------------------------ bounds
NumResources == 3
\* identifiers that every callback subscribes to, and the ones in use where callbacks
\* call back into the manager; the other identifiers have one subscriber
NumContended == 1
NumCallbacks == 2
NumListeners == 1
\* calls that callbacks make into the manager, per run
MaxReentrant == 2
\* fatal transport errors in a row, where a specification bounds them
MaxErrors == 1
\* largest retryAttempts a request passes
MaxRetryOption == 4
\* error interceptors the application adds to the default one
NumInterceptors == 1
\* concurrent callers of HttpClient.request
NumCallers == 2
\* the clock stops here (ms)
MaxNow == 300001
\* payloads: 0 stands for the falsy values (null, 0, false, ''), the others are truthy
MaxPayload == 1
\* mutations the server completes in one behaviour
MaxMutations == 1
NumSessionIds == 2
NumTokens == 2
MaxPlan == 2
\* avatar URLs a creation session offers
NumAvatars == 4

Resources == 1..NumResources
Contended == 1..NumContended
Callbacks == 1..NumCallbacks
Listeners == 1..NumListeners

\* ------------------------------------------------- sseConfig (config.ts)
maxReconnectAttempts == 10
initialReconnectDelay == 1000
maxReconnectDelay == 30000
heartbeatInterval == 30000
heartbeatTimeout == 45000

\* ------------------------------------------- defaultApiConfig (config.ts)
defaultRetryAttempts == 3
defaultRetryDelay == 1000
cacheEnabled == TRUE
cacheTTL == 300000

\* ------------------------------------------------ HTTP_STATUS (config.ts)
OK == 200
BAD_REQUEST == 400
UNAUTHORIZED == 401
FORBIDDEN == 403
NOT_FOUND == 404
UNPROCESSABLE_ENTITY == 422
TOO_MANY_REQUESTS == 429
INTERNAL_SERVER_ERROR == 500
BAD_GATEWAY == 502
SERVICE_UNAVAILABLE == 503
GATEWAY_TIMEOUT == 504

\* Time is counted in units that divide both heartbeat constants.
TimeUnit == heartbeatTimeout - heartbeatInterval
IntervalUnits == heartbeatInterval \div TimeUnit
MaxAge == (heartbeatTimeout \div TimeUnit) + 1

VARIABLES
  \* SSEManager fields
  eventSource,           \* [rs, url]: rs = "null" | "connecting" | "open" | "closed"
  subscriptionKeys,      \* keys of the subscriptions Map, in insertion order
  subscriptions,         \* resource -> its callback Set, in insertion order
  reconnectAttempts,
  reconnectTimeout,      \* "null" | "pending" | "stale" (cleared or fired, field not reset)
  heartbeatTimer,        \* the heartbeatTimeout field: TRUE while the interval is set
  isManualClose,
  connectionState,
  stateChangeListeners,  \* the listener Set, in insertion order
  sinceHeartbeat,        \* Date.now() - lastHeartbeat, in TimeUnits, saturating at MaxAge
  sinceInterval,         \* time since the heartbeat interval was set or last fired
  \* the world around the manager
  stack,                 \* pending instructions of the running task, top first
  orphans,               \* readyStates of the EventSources the manager created, no longer
                         \* holds and never closed (their URLs play no part afterwards)
  handles,               \* unsubscribe handles handed out: <<resource, callback>>
  \* history
  unsubscribed,          \* handles run since the pair was last subscribed
  staleAtFrame,          \* the pairs of `unsubscribed` when the frame being dispatched
                         \* arrived, less the pairs subscribed since
  timerDelay,            \* delay the pending reconnect timer was set with
  reentrant,             \* calls made into the manager from inside callbacks
  invoked,               \* callback -> invocations during the frame being dispatched
  registeredAtFrame,     \* callbacks of the frame's resource when the frame arrived
  threw,                 \* a callback threw during the frame being dispatched
  sinceFrame,            \* time since the connection opened or its last frame of any
                         \* event type arrived, in TimeUnits, saturating at MaxAge
  afterDestroy           \* destroy() has returned and subscribe was not called since

VARIABLES
  \* one call of HttpClient.makeRequest and its retries
  httpPhase,             \* "idle" | "fetching" | "waiting" (backoff) | "done"
  optRetryAttempts,      \* options.retryAttempts: [defined, value]
  optRetryDelay,         \* options.retryDelay in ms: [defined, value]
  attempt,               \* the attempt parameter of the running makeRequest
  timeoutId,             \* TRUE while the abort timer of the running attempt is pending
  result,                \* "none" | "ok" | the kind of the error thrown to the caller
  \* history
  fetches,               \* calls of fetch
  timersStarted,         \* abort timers set
  delays,                \* the backoff delays awaited, in order
  outcomes,              \* how the attempts ended: a status, "timeout" or "network"
  lastOutcome,           \* how the last attempt ended
  intercepted,           \* error interceptors invoked for the request, in order
  logouts,               \* 'auth:logout' events dispatched during the request
  removals               \* removals of the stored token during the request

VARIABLES
  \* what the client shares with the application
  token,                 \* localStorage holds a bearer token
  errorInterceptors      \* the errorInterceptors array: 0 is the default handler

retryVars == <<httpPhase, optRetryAttempts, optRetryDelay, attempt, timeoutId, result,
               fetches, timersStarted, delays, outcomes, lastOutcome>>
authVars == <<intercepted, logouts, removals, token, errorInterceptors>>
httpVars == <<retryVars, authVars>>

VARIABLES
  \* HttpClient.request and the services built on it
  cache,                 \* this.cache: <<method, url>> -> entry
  now,                   \* Date.now()
  calls,                 \* the calls of request in progress, one per caller
  customInterceptors,    \* the application added request and response interceptors
  epoch                  \* per read endpoint: mutations of it the server has completed

clientVars == <<cache, now, calls, customInterceptors, epoch>>

VARIABLES
  \* CreationFlow (components/creation/CreationFlow.tsx)
  step,                  \* useState<Step>
  session,               \* useState<CreationSession | null>: [present, status, avatar_urls]
  selectedAvatar,        \* useState<string | null>: 0 is null
  error,                 \* useState<string | null>: "null" or the message
  isLoadingSession,      \* the check for an active session is in progress
  awaiting,              \* the service call a handler awaits, or "none"
  \* history
  scenario,              \* events of the sequence of C18 received since handleStart
  creationFailed         \* a terminal failure was learned and no retry or reset followed

VARIABLES
  \* OrchestratorFlow (components/orchestrator/OrchestratorFlow.tsx)
  currentStep,           \* useState(1)
  loading,               \* useState(false)
  statusMsg,             \* a status message is shown
  orchError,             \* useState<string | null>: an error message is shown
  restoringSession,      \* the restore on mount is in progress
  orchAwaiting,          \* a handler awaits its service call
  \* history
  orchFailed             \* a terminal failure was learned and no retry or reset followed

VARIABLES
  \* one post of InfluencerContext (services/InfluencerContext.tsx)
  postStatus,            \* post.status, or "absent"
  postError,             \* post.error is set
  \* history
  postFailed             \* a terminal failure was learned and no retry followed

VARIABLES
  \* the backend's creation session and the connection that carries its events
  server,                \* status of the creation session of the backend, or "none"
  channel,               \* the manager's EventSource: "none", "connecting" or "open"
  channelResources,      \* the resources in the URL of that EventSource
  resourceKeys           \* the keys of manager.subscriptions

mirrorVars == <<server, channel, channelResources, resourceKeys>>

VARIABLES
  \* the session of OrchestratorFlow (OrchestratorFlow.tsx 173-194)
  sessionId,             \* the sessionId state
  storedSessionId,       \* localStorage orch_session_{influencerId}, 0 when absent
  unsubRef,              \* the id whose channel unsubRef.current unsubscribes, 0 = null
  effectSessionId,       \* the sessionId the subscribe effect last ran with, 0 = never
  resetting,             \* the sessionId of the handleReset that is at its await, or 0
  orchSession,           \* the session state: [present, id, plan]
  editingPlan,           \* the editingPlan state: [plan, name]
  sessionFetches,        \* ids of the getOrchestratorSession calls in flight
  backendSessions,       \* ids startOrchestrator was called with
  \* history
  resetLog               \* what the last handleReset has done, in order

orchSessionVars == <<sessionId, storedSessionId, unsubRef, effectSessionId, resetting,
                     orchSession, editingPlan, sessionFetches, backendSessions, resetLog>>
VARIABLES
  \* the bearer token and the responses fetched with it
  bearer,                \* localStorage aura_token: 0 when absent, or the token
  \* history
  sentWith,              \* the token the auth interceptor read for the last request
  cachedUnder            \* the token sent with the request whose response is cached

bearerVars == <<bearer, sentWith, cachedUnder>>
sessionVars == <<mirrorVars, orchSessionVars, bearerVars>>

creationVars == <<step, session, selectedAvatar, error, isLoadingSession, awaiting,
                  scenario, creationFailed>>
orchVars == <<currentStep, loading, statusMsg, orchError, restoringSession, orchAwaiting,
              orchFailed>>
postVars == <<postStatus, postError, postFailed>>
flowVars == <<creationVars, orchVars, postVars>>
appVars == <<clientVars, flowVars, sessionVars>>

sseVars == <<eventSource, subscriptionKeys, subscriptions, reconnectAttempts,
             reconnectTimeout, heartbeatTimer, isManualClose, connectionState,
             stateChangeListeners, sinceHeartbeat, sinceInterval, stack, orphans,
             handles, unsubscribed, staleAtFrame, timerDelay, reentrant,
             invoked, registeredAtFrame, threw, sinceFrame, afterDestroy>>

vars == <<sseVars, httpVars, appVars>>

\* The state as one record, for the operators that model the manager's methods
Cur ==
  [eventSource |-> eventSource, subscriptionKeys |-> subscriptionKeys,
   subscriptions |-> subscriptions, reconnectAttempts |-> reconnectAttempts,
   reconnectTimeout |-> reconnectTimeout, heartbeatTimer |-> heartbeatTimer,
   isManualClose |-> isManualClose, connectionState |-> connectionState,
   stateChangeListeners |-> stateChangeListeners, sinceHeartbeat |-> sinceHeartbeat,
   sinceInterval |-> sinceInterval, stack |-> stack, orphans |-> orphans,
   handles |-> handles, unsubscribed |-> unsubscribed, staleAtFrame |-> staleAtFrame,
   timerDelay |-> timerDelay,
   reentrant |-> reentrant, invoked |-> invoked,
   registeredAtFrame |-> registeredAtFrame, threw |-> threw, sinceFrame |-> sinceFrame,
   afterDestroy |-> afterDestroy]

Become(st) ==
  /\ eventSource' = st.eventSource
  /\ subscriptionKeys' = st.subscriptionKeys
  /\ subscriptions' = st.subscriptions
  /\ reconnectAttempts' = st.reconnectAttempts
  /\ reconnectTimeout' = st.reconnectTimeout
  /\ heartbeatTimer' = st.heartbeatTimer
  /\ isManualClose' = st.isManualClose
  /\ connectionState' = st.connectionState
  /\ stateChangeListeners' = st.stateChangeListeners
  /\ sinceHeartbeat' = st.sinceHeartbeat
  /\ sinceInterval' = st.sinceInterval
  /\ stack' = st.stack
  /\ orphans' = st.orphans
  /\ handles' = st.handles
  /\ unsubscribed' = st.unsubscribed
  /\ staleAtFrame' = st.staleAtFrame
  /\ timerDelay' = st.timerDelay
  /\ reentrant' = st.reentrant
  /\ invoked' = st.invoked
  /\ registeredAtFrame' = st.registeredAtFrame
  /\ threw' = st.threw
  /\ sinceFrame' = st.sinceFrame
  /\ afterDestroy' = st.afterDestroy
  /\ UNCHANGED <<httpVars, appVars>>

\* ------------------------------------------------------------ sequences
SeqToSet(s) == {s[k] : k \in 1..Len(s)}
InSeq(x, s) == x \in SeqToSet(s)
IndexOf(x, s) == CHOOSE k \in 1..Len(s) : s[k] = x
SeqRemove(s, x) == SelectSeq(s, LAMBDA y : y # x)
\* Set.add: an element already present keeps its place
SetAdd(s, x) == IF InSeq(x, s) THEN s ELSE Append(s, x)
Min(a, b) == IF a <= b THEN a ELSE b

\* --------------------------------------------------------- instructions
NoSnap == <<>>
F(op) == [op |-> op, r |-> 0, c |-> 0, s |-> "", i |-> 0, rest |-> <<>>, snap |-> NoSnap]
FRC(op, r, c) == [F(op) EXCEPT !.r = r, !.c = c]
FS(op, s) == [F(op) EXCEPT !.s = s]

NullES == [rs |-> "null", url |-> <<>>]
IsLive(es) == es.rs \in {"connecting", "open"}

Idle == stack = <<>>
Top == Head(stack)
TopIs(op) == stack # <<>> /\ Top.op = op

\* the instruction on top is replaced by `frames`
Continue(st, frames) == [st EXCEPT !.stack = frames \o Tail(st.stack)]

NoDispatch == [c \in Callbacks |-> 0]
EmptySubscriptions == [r \in Resources |-> <<>>]

\* ------------------------------------------------- ENDPOINTS (config.ts 63-100)
INFLUENCERS == "/influencer"
INFLUENCER_BY_ID == "/influencer/{id}"
POSTS_CREATE == "/postings/create"
POSTS_BY_INFLUENCER == "/postings/influencer/{id}"
POST_BY_ID == "/postings/{id}"
CREATION_START == "/creation/start"
CREATION_SESSION == "/creation/{id}"
CREATION_CONFIRM == "/creation/{id}/confirm"
CREATION_ACTIVE == "/creation"

\* the endpoints the services read with a cached GET
ReadEndpoints == {INFLUENCERS, INFLUENCER_BY_ID, POSTS_BY_INFLUENCER, CREATION_ACTIVE}
Endpoints == ReadEndpoints \cup {POSTS_CREATE, POST_BY_ID, CREATION_START, CREATION_SESSION,
                                 CREATION_CONFIRM}
Methods == {"GET", "POST", "PUT", "DELETE"}
Callers == 1..NumCallers
Payloads == 0..MaxPayload

\* interface CacheEntry (31-35); epoch is history: the value of epoch[url] when the
\* response was cached
NoEntry == [present |-> FALSE, data |-> 0, timestamp |-> 0, ttl |-> 0, epoch |-> 0]

\* What a call of request produced: nothing yet, the parsed body, or an error
NoOutcome == [kind |-> "none", class |-> "", data |-> 0]

\* No call of request in progress for the caller
IdleCall ==
  [phase |-> "idle", op |-> "none", method |-> "GET", url |-> INFLUENCERS,
   skipCache |-> FALSE, optCacheTTL |-> [defined |-> FALSE, value |-> 0],
   network |-> FALSE, atStart |-> "none", expected |-> 0, evicted |-> FALSE,
   stale |-> FALSE, outcome |-> NoOutcome]

\* ------------------------------------------ the consumers of push events
\* The session ids generateSessionId (60-65) hands out, in order
SessionIds == 1..NumSessionIds
\* session === null
NoOrchSession == [present |-> FALSE, id |-> 0, plan |-> 0]
\* The research plans of the backend: 0 is no research_plan, and every plan holds the
\* task t1; editingPlan holds the plan it was set from and the name of t1 in it
Plans == 0..MaxPlan
EmptyPlan == [plan |-> 0, name |-> "server"]

NoSession == [present |-> FALSE, status |-> "pending", avatar_urls |-> <<>>]

Init ==
  /\ bearer = 0
  /\ sentWith = 0
  /\ cachedUnder = 0
  /\ sessionId = 1
  /\ storedSessionId = 0
  /\ unsubRef = 0
  /\ effectSessionId = 0
  /\ resetting = 0
  /\ orchSession = NoOrchSession
  /\ editingPlan = EmptyPlan
  /\ sessionFetches = {}
  /\ backendSessions = {}
  /\ resetLog = <<>>
  /\ server = "none"
  /\ channel = "none"
  /\ channelResources = {}
  /\ resourceKeys = {}
  /\ step = "input"
  /\ session = NoSession
  /\ selectedAvatar = 0
  /\ error = "null"
  /\ isLoadingSession = TRUE
  /\ awaiting = "none"
  /\ scenario = -1
  /\ creationFailed = FALSE
  /\ currentStep = 1
  /\ loading = FALSE
  /\ statusMsg = FALSE
  /\ orchError = FALSE
  /\ restoringSession = TRUE
  /\ orchAwaiting = FALSE
  /\ orchFailed = FALSE
  /\ postStatus = "absent"
  /\ postError = FALSE
  /\ postFailed = FALSE
  /\ cache = [k \in Methods \X Endpoints |-> NoEntry]
  /\ now = 0
  /\ calls = [c \in Callers |-> IdleCall]
  /\ customInterceptors = FALSE
  /\ epoch = [u \in ReadEndpoints |-> 0]
  /\ eventSource = NullES
  /\ subscriptionKeys = <<>>
  /\ subscriptions = EmptySubscriptions
  /\ reconnectAttempts = 0
  /\ reconnectTimeout = "null"
  /\ heartbeatTimer = FALSE
  /\ isManualClose = FALSE
  /\ connectionState = "DISCONNECTED"
  /\ stateChangeListeners = <<>>
  /\ sinceHeartbeat = 0
  /\ sinceInterval = 0
  /\ stack = <<>>
  /\ orphans = {}
  /\ handles = {}
  /\ unsubscribed = {}
  /\ staleAtFrame = {}
  /\ timerDelay = 0
  /\ reentrant = 0
  /\ invoked = NoDispatch
  /\ registeredAtFrame = {}
  /\ threw = FALSE
  /\ sinceFrame = 0
  /\ afterDestroy = FALSE
  /\ httpPhase = "idle"
  /\ optRetryAttempts = [defined |-> FALSE, value |-> 0]
  /\ optRetryDelay = [defined |-> FALSE, value |-> 0]
  /\ attempt = 0
  /\ timeoutId = FALSE
  /\ result = "none"
  /\ fetches = 0
  /\ timersStarted = 0
  /\ delays = <<>>
  /\ outcomes = {}
  /\ lastOutcome = [kind |-> "none", status |-> 0]
  /\ intercepted = <<>>
  /\ logouts = 0
  /\ removals = 0
  /\ token = FALSE
  /\ errorInterceptors = <<0>>

\* ----------------------------------------------- setConnectionState (63-74)
setConnectionState(st) ==
  LET state == Head(st.stack).s
  IN IF st.connectionState # state
       THEN Continue([st EXCEPT !.connectionState = state], <<FS("notifyListeners", state)>>)
       ELSE Continue(st, <<>>)

\* stateChangeListeners.forEach (66-72): Top.i listeners have been passed
notifyListeners(st) ==
  LET f == Head(st.stack)
  IN IF f.i < Len(st.stateChangeListeners)
       THEN Continue(st, <<[F("listener") EXCEPT !.c = st.stateChangeListeners[f.i + 1],
                                                 !.s = f.s],
                           [f EXCEPT !.i = @ + 1]>>)
       ELSE Continue(st, <<>>)

\* ------------------------------------------------------ subscribe (81-105)
subscribe(st) ==
  LET r == Head(st.stack).r
      c == Head(st.stack).c
      isNewResource == ~InSeq(r, st.subscriptionKeys)
  IN Continue([st EXCEPT
                 !.subscriptionKeys = IF isNewResource THEN Append(@, r) ELSE @,
                 !.subscriptions[r] = IF isNewResource THEN <<c>> ELSE SetAdd(@, c),
                 !.unsubscribed = @ \ {<<r, c>>},
                 !.staleAtFrame = @ \ {<<r, c>>},
                 !.afterDestroy = FALSE],
              <<F(IF isNewResource /\ IsLive(st.eventSource) THEN "reconnect" ELSE "connect")>>)

\* A forEach over the callback Set of r that is in progress sees a deletion: an entry
\* deleted before the cursor moves the cursor back, and a Set taken out of the Map is
\* no longer the Set later subscribers are added to.
AfterDelete(f, r, old, c, dropped) ==
  IF f.op = "notifySubscribers" /\ f.s = "live" /\ f.r = r /\ InSeq(c, old)
    THEN IF dropped
           THEN [f EXCEPT !.s = "detached", !.i = 0, !.rest = <<>>]
           ELSE [f EXCEPT !.i = IF IndexOf(c, old) <= f.i THEN f.i - 1 ELSE f.i]
    ELSE f

\* subscriptions.clear(): the Sets themselves keep their entries
AfterClear(f, subs) ==
  IF f.op = "notifySubscribers" /\ f.s = "live"
    THEN [f EXCEPT !.s = "detached", !.i = 0,
                   !.rest = SubSeq(subs[f.r], f.i + 1, Len(subs[f.r]))]
    ELSE f

\* every forEach in progress in the running task sees the change
DeleteSeen(stk, r, old, c, dropped) ==
  [k \in 1..Len(stk) |-> AfterDelete(stk[k], r, old, c, dropped)]
ClearSeen(stk, subs) == [k \in 1..Len(stk) |-> AfterClear(stk[k], subs)]

\* An unsubscribe that leaves the emptied Set in the Map
KeysKept(keys, r, dropped) == keys

\* if (callbacks.size === 0) this.subscriptions.delete(resourceId) (111-114)
KeysAfterDelete(keys, r, dropped) == IF dropped THEN SeqRemove(keys, r) ELSE keys

\* the unsubscribe handle (107-124).  The point where the handle returns (the
\* instruction below it) is told whether this run removed the last identifier.
unsubscribe(st) ==
  LET r == Head(st.stack).r
      c == Head(st.stack).c
      callbacks == InSeq(r, st.subscriptionKeys)
      old == st.subscriptions[r]
      new == SeqRemove(old, c)
      dropped == callbacks /\ new = <<>>
      keys == KeysAfterDelete(st.subscriptionKeys, r, dropped)
      below == [Tail(st.stack) EXCEPT ![1].i = IF dropped /\ keys = <<>> THEN 1 ELSE 0]
  IN [st EXCEPT
        !.subscriptions[r] = IF callbacks THEN new ELSE @,
        !.subscriptionKeys = keys,
        !.unsubscribed = @ \cup {<<r, c>>},
        !.stack = <<F(IF keys = <<>> THEN "disconnect" ELSE "reconnect")>>
                  \o (IF callbacks
                        THEN DeleteSeen(below, r, old, c, dropped)
                        ELSE below)]

\* ----------------------------------------------------- reconnect (368-371)
reconnect(st) == Continue(st, <<F("disconnect"), F("connect")>>)

\* ---------------------------------------------------- disconnect (376-394)
\* lastHeartbeat is read only by the interval callback and reset by startHeartbeat, so
\* the two clocks are kept at 0 while no interval is set.
disconnect(st) ==
  Continue([st EXCEPT !.isManualClose = TRUE,
                      !.reconnectTimeout = "null",
                      !.timerDelay = 0,
                      !.heartbeatTimer = FALSE,
                      !.sinceHeartbeat = 0,
                      !.sinceInterval = 0,
                      !.sinceFrame = 0,
                      !.eventSource = NullES],
           <<FS("setConnectionState", "DISCONNECTED"), F("disconnectEnd")>>)

disconnectEnd(st) == Continue([st EXCEPT !.isManualClose = FALSE], <<>>)

\* ------------------------------------------------------- destroy (399-405)
destroy(st) == Continue(st, <<F("disconnect"), F("destroyEnd")>>)

destroyEnd(st) ==
  [st EXCEPT !.subscriptionKeys = <<>>,
             !.subscriptions = EmptySubscriptions,
             !.stateChangeListeners = <<>>,
             !.afterDestroy = TRUE,
             !.stack = ClearSeen(Tail(st.stack), st.subscriptions)]

\* ------------------------------------------------------- connect (163-219)
\* new EventSource(url) throws only for a URL that does not parse; SSE_BASE_URL is a
\* fixed, well-formed URL, so the catch branch (212-218) is not modelled.
connect(st) ==
  IF IsLive(st.eventSource) \/ st.subscriptionKeys = <<>>
    THEN Continue(st, <<>>)
    ELSE Continue(st, <<FS("setConnectionState", "CONNECTING"), F("connectOpen")>>)

\* A connect that keeps the resource list of the connection it replaces
StaleResourceParam(st) ==
  IF st.eventSource.rs = "closed" THEN st.eventSource.url ELSE st.subscriptionKeys

\* resourceIds.join(','): the keys of the Map as they are now (175-177).  Identifiers
\* are "<kind>:<id>" keys that hold no comma, so the joined and URI-encoded parameter
\* determines the list; the list stands for it.
ResourceParam(st) == st.subscriptionKeys

\* this.eventSource = new EventSource(url) (182): the field is overwritten, and an
\* EventSource it still held is not closed by this
connectOpen(st) ==
  Continue([st EXCEPT !.eventSource = [rs |-> "connecting", url |-> ResourceParam(st)],
                      !.orphans = IF IsLive(st.eventSource) THEN @ \cup {st.eventSource.rs}
                                                            ELSE @],
           <<>>)

\* ------------------------------------------------ onopen, onerror (184-211)
\* startHeartbeat (129-141)
onopenEnd(st) ==
  Continue([st EXCEPT !.reconnectAttempts = 0,
                      !.heartbeatTimer = TRUE,
                      !.sinceHeartbeat = 0,
                      !.sinceInterval = 0,
                      !.sinceFrame = 0],
           <<>>)

onerrorEnd(st) ==
  Continue([st EXCEPT !.heartbeatTimer = FALSE, !.sinceHeartbeat = 0, !.sinceInterval = 0,
                      !.sinceFrame = 0],
           IF st.eventSource.rs = "closed" /\ ~st.isManualClose
             THEN <<F("scheduleReconnect")>>
             ELSE <<>>)

\* --------------------------------------------- scheduleReconnect (337-363)
\* A backoff without the cap
UncappedReconnectDelay(attempts) == initialReconnectDelay * (2 ^ attempts)

\* Math.min(initialReconnectDelay * Math.pow(2, reconnectAttempts), maxReconnectDelay)
ReconnectDelay(attempts) ==
  Min(initialReconnectDelay * (2 ^ attempts), maxReconnectDelay)

\* clearTimeout without resetting the field (338-340)
ClearedTimeout(timeout) == IF timeout = "null" THEN "null" ELSE "stale"

scheduleReconnect(st) ==
  LET cleared == [st EXCEPT !.reconnectTimeout = ClearedTimeout(@), !.timerDelay = 0]
  IN IF st.reconnectAttempts >= maxReconnectAttempts
       THEN Continue(cleared, <<FS("setConnectionState", "ERROR")>>)
       ELSE Continue([cleared EXCEPT !.reconnectAttempts = @ + 1],
                     <<FS("setConnectionState", "RECONNECTING"),
                       [F("setTimeout") EXCEPT !.i = ReconnectDelay(st.reconnectAttempts)]>>)

\* this.reconnectTimeout = setTimeout(..., delay) (360-362)
setTimeout(st) ==
  Continue([st EXCEPT !.reconnectTimeout = "pending", !.timerDelay = Head(st.stack).i], <<>>)

\* ------------------------------------------- notifySubscribers (317-332)
\* A forEach over a copy of the Set taken when the frame arrived
SnapshotCallbacks(st, f) ==
  LET todo == {c \in st.registeredAtFrame : st.invoked[c] = 0}
  IN IF todo = {} THEN <<>> ELSE <<CHOOSE c \in todo : \A d \in todo : c <= d>>

\* callbacks.forEach: f.i entries of the live Set have been passed
NextCallbacks(st, f) ==
  IF f.s = "live"
    THEN SubSeq(st.subscriptions[f.r], f.i + 1, Len(st.subscriptions[f.r]))
    ELSE f.rest

Advance(f) == IF f.s = "live" THEN [f EXCEPT !.i = @ + 1] ELSE [f EXCEPT !.rest = Tail(@)]

notifySubscribers(st) ==
  LET f == Head(st.stack)
      todo == NextCallbacks(st, f)
  IN IF todo # <<>>
       THEN Continue([st EXCEPT !.invoked[Head(todo)] = Min(@ + 1, 2)],
                     <<FRC("subscriber", f.r, Head(todo)), Advance(f)>>)
       ELSE Continue(st, <<FRC("dispatched", f.r, 0)>>)

\* -------------------------------------------------------- the interpreter
\* What the running task is stopped at: a callback running, a call of the public
\* interface returning, the dispatch of a frame ending
Outside == {"listener", "subscriber", "return", "dispatched"}

Step(st) ==
  LET op == Head(st.stack).op
  IN CASE op = "setConnectionState" -> setConnectionState(st)
       [] op = "notifyListeners"    -> notifyListeners(st)
       [] op = "subscribe"          -> subscribe(st)
       [] op = "unsubscribe"        -> unsubscribe(st)
       [] op = "reconnect"          -> reconnect(st)
       [] op = "disconnect"         -> disconnect(st)
       [] op = "disconnectEnd"      -> disconnectEnd(st)
       [] op = "destroy"            -> destroy(st)
       [] op = "destroyEnd"         -> destroyEnd(st)
       [] op = "connect"            -> connect(st)
       [] op = "connectOpen"        -> connectOpen(st)
       [] op = "onopenEnd"          -> onopenEnd(st)
       [] op = "onerrorEnd"         -> onerrorEnd(st)
       [] op = "scheduleReconnect"  -> scheduleReconnect(st)
       [] op = "setTimeout"         -> setTimeout(st)
       [] op = "notifySubscribers"  -> notifySubscribers(st)

RECURSIVE Run(_)
Run(st) ==
  IF st.stack = <<>> \/ Head(st.stack).op \in Outside THEN st ELSE Run(Step(st))

\* ------------------------------------------- calls of the public interface
\* What a caller can compare before and after a call
Snapshot(st) ==
  [subscriptionKeys |-> st.subscriptionKeys, subscriptions |-> st.subscriptions,
   stateChangeListeners |-> st.stateChangeListeners, eventSource |-> st.eventSource,
   heartbeatTimer |-> st.heartbeatTimer, connectionState |-> st.connectionState,
   reconnectAttempts |-> st.reconnectAttempts, reconnectTimeout |-> st.reconnectTimeout,
   reentrant |-> st.reentrant]

\* The call and, below it, the point where it returns to its caller
ApiCall(st, op, r, c) ==
  <<FRC(op, r, c), [FRC("return", r, c) EXCEPT !.s = op, !.snap = Snapshot(st)]>>

Begin(frames) ==
  /\ Idle
  /\ Become(Run([Cur EXCEPT !.stack = frames]))

\* The callbacks that subscribe to r
Subscribers(r) == IF r \in Contended THEN Callbacks ELSE {1}
SubscribeTo(R) ==
  \E r \in R : \E c \in Subscribers(r) : Begin(ApiCall(Cur, "subscribe", r, c))
Subscribe == SubscribeTo(Resources)
Unsubscribe == \E h \in handles : Begin(ApiCall(Cur, "unsubscribe", h[1], h[2]))
Disconnect == Begin(ApiCall(Cur, "disconnect", 0, 0))
Destroy == Begin(ApiCall(Cur, "destroy", 0, 0))

\* subscribe returns the unsubscribe handle (106-124)
AfterReturn(st) ==
  LET f == Head(st.stack)
  IN Continue([st EXCEPT !.handles = IF f.s = "subscribe" THEN @ \cup {<<f.r, f.c>>} ELSE @],
              <<>>)

Returns ==
  /\ TopIs("return")
  /\ Become(Run(AfterReturn(Cur)))

\* addStateListener and the remove function it returns (55-58)
AddStateListener ==
  /\ Idle
  /\ \E l \in Listeners :
       /\ ~InSeq(l, stateChangeListeners)
       /\ Become([Cur EXCEPT !.stateChangeListeners = SetAdd(@, l)])

RemoveStateListener ==
  /\ Idle
  /\ \E l \in Listeners :
       /\ InSeq(l, stateChangeListeners)
       /\ Become([Cur EXCEPT !.stateChangeListeners = SeqRemove(@, l)])

\* ------------------------------------------- the callbacks the manager calls
InCallback == TopIs("subscriber") \/ TopIs("listener")

\* A forEach without the inner try: the error leaves notifySubscribers and is caught
\* by the event handler (229-235), which returns
UncaughtCallbackError(stk) == <<FRC("dispatched", stk[1].r, 0)>> \o Tail(Tail(stk))

\* try { callback(event, eventType) } catch (325-329): the forEach goes on
CatchCallbackError(stk) == Tail(stk)
\* try { listener(state) } catch (67-71): the forEach goes on
CatchListenerError(stk) == Tail(stk)

CallbackReturns ==
  /\ InCallback
  /\ Become(Run(Continue(Cur, <<>>)))

SubscriberThrows ==
  /\ TopIs("subscriber")
  /\ Become(Run([Cur EXCEPT !.threw = TRUE, !.stack = CatchCallbackError(stack)]))

ListenerThrows ==
  /\ TopIs("listener")
  /\ Become(Run([Cur EXCEPT !.stack = CatchListenerError(stack)]))

\* A callback calls into the manager (the call runs inside the callback, which goes on
\* when it returns); Top.i counts the calls this invocation has made.
Reenter(op, r, c) ==
  /\ InCallback
  /\ reentrant < MaxReentrant
  /\ Become(Run([Cur EXCEPT !.reentrant = @ + 1,
                            !.stack = ApiCall(Cur, op, r, c)
                                      \o <<[Top EXCEPT !.i = @ + 1]>> \o Tail(stack)]))

ReenterSubscribe == \E r \in Contended, c \in Callbacks : Reenter("subscribe", r, c)
ReenterUnsubscribe == \E h \in handles : Reenter("unsubscribe", h[1], h[2])
ReenterDisconnect == Reenter("disconnect", 0, 0)
ReenterDestroy == Reenter("destroy", 0, 0)

\* ------------------------------------------------------------ transport
\* The EventSources that can still raise events: the one held and the orphans.
Held == [held |-> TRUE, rs |-> eventSource.rs]
Sources == {Held} \cup {[held |-> FALSE, rs |-> rs] : rs \in orphans}

WithSource(st, src, rs) ==
  IF src.held
    THEN [st EXCEPT !.eventSource.rs = rs]
    ELSE [st EXCEPT !.orphans = (@ \ {src.rs}) \cup (IF rs = "closed" THEN {} ELSE {rs})]

\* onopen (184-189)
TransportOpen ==
  /\ Idle
  /\ \E src \in Sources :
       /\ src.rs = "connecting"
       /\ Become(Run([WithSource(Cur, src, "open") EXCEPT
                        !.stack = <<FS("setConnectionState", "CONNECTED"), F("onopenEnd")>>]))

\* onerror (200-211).  A failed connection ends CLOSED (fatal), or goes back to
\* CONNECTING, the browser retrying by itself.
TransportError(fatal) ==
  /\ Idle
  /\ \E src \in Sources :
       /\ src.rs \in {"connecting", "open"}
       /\ Become(Run([WithSource(Cur, src, IF fatal THEN "closed" ELSE "connecting") EXCEPT
                        !.stack = <<FS("setConnectionState", "ERROR"), F("onerrorEnd")>>]))

\* the reconnect timer fires (360-362)
TimerFires ==
  /\ Idle
  /\ reconnectTimeout = "pending"
  /\ Become(Run([Cur EXCEPT !.reconnectTimeout = "stale", !.stack = <<F("reconnect")>>]))

\* ------------------------------------------------------ heartbeat (129-158)
AdvanceTime ==
  /\ Idle
  /\ heartbeatTimer
  /\ sinceInterval < IntervalUnits
  /\ Become([Cur EXCEPT !.sinceInterval = @ + 1, !.sinceHeartbeat = Min(@ + 1, MaxAge),
                        !.sinceFrame = Min(@ + 1, MaxAge)])

HeartbeatStale == sinceHeartbeat * TimeUnit > heartbeatTimeout

\* the interval callback (133-140); timeSinceLastHeartbeat > heartbeatTimeout is `stale`
HeartbeatCheck(stale) ==
  /\ Idle
  /\ heartbeatTimer
  /\ Become(Run([Cur EXCEPT !.sinceInterval = 0,
                            !.stack = IF stale THEN <<F("reconnect")>> ELSE <<>>]))

\* updateHeartbeat (156-158), called by the handler of a frame
updateHeartbeat(st) == [st EXCEPT !.sinceHeartbeat = 0, !.sinceFrame = 0]

\* the 'connected' event (191-195)
ConnectedEvent ==
  /\ Idle
  /\ \E src \in Sources : src.rs = "open"
  /\ sinceHeartbeat # 0
  /\ Become(updateHeartbeat(Cur))

\* ------------------------------- registerEventHandlers (224-313), one frame
\* Every named event and onmessage does the same: updateHeartbeat, parse, and
\* notifySubscribers(payload.resource_id, ...), where callbacks is looked up once (322).
FrameFor(R) ==
  /\ Idle
  /\ \E src \in Sources : src.rs = "open"
  /\ \E r \in R :
       Become(Run([updateHeartbeat(Cur) EXCEPT
                     !.stack = <<[F("notifySubscribers") EXCEPT
                                    !.r = r,
                                    !.s = IF InSeq(r, subscriptionKeys) THEN "live"
                                                                        ELSE "detached"]>>,
                     !.registeredAtFrame = SeqToSet(subscriptions[r]),
                     !.staleAtFrame = unsubscribed,
                     !.invoked = NoDispatch,
                     !.threw = FALSE]))

FrameArrives == FrameFor(Resources)

\* A frame of an event type that registerEventHandlers has no listener for
\* (agent_status, agent_message, agent_stream of SSEEventType, api-types.ts 372-375),
\* or a comment line: no handler runs
UnhandledFrame ==
  /\ Idle
  /\ eventSource.rs = "open"
  /\ sinceFrame # 0
  /\ Become([Cur EXCEPT !.sinceFrame = 0])

\* the event handler returns
Dispatched ==
  /\ TopIs("dispatched")
  /\ Become(Run([Cur EXCEPT !.stack = Tail(@), !.invoked = NoDispatch,
                            !.registeredAtFrame = {}, !.staleAtFrame = {},
                            !.threw = FALSE]))

\* ---------------------------------------------------------- specification
\* The heartbeat interval fires with the clocks as they are
TimedHeartbeatCheck == sinceInterval = IntervalUnits /\ HeartbeatCheck(HeartbeatStale)
\* The heartbeat interval fires, the time that has passed left open
UntimedHeartbeatCheck == \E stale \in BOOLEAN : HeartbeatCheck(stale)

RecoverableError == TransportError(FALSE)
FatalError == TransportError(TRUE)
BoundedFatalError == reconnectAttempts < MaxErrors /\ TransportError(TRUE)

Callback ==
  \/ CallbackReturns \/ SubscriberThrows \/ ListenerThrows
  \/ ReenterSubscribe \/ ReenterUnsubscribe \/ ReenterDisconnect \/ ReenterDestroy

\* Callbacks and listeners that call back into the manager, over the identifiers of
\* Contended
ContendedSubscribe == SubscribeTo(Contended)
ContendedFrame == FrameFor(Contended)

Next ==
  \/ ContendedSubscribe \/ Unsubscribe \/ Disconnect \/ Destroy \/ Returns
  \/ AddStateListener \/ RemoveStateListener
  \/ Callback
  \/ TransportOpen \/ RecoverableError \/ BoundedFatalError
  \/ ContendedFrame \/ Dispatched
  \/ TimerFires \/ UntimedHeartbeatCheck

Spec == Init /\ [][Next]_vars

\* Callers that never call from inside a callback, over all the identifiers
NextSequential ==
  \/ Subscribe \/ Unsubscribe \/ Disconnect \/ Destroy \/ Returns
  \/ CallbackReturns \/ SubscriberThrows
  \/ TransportOpen \/ RecoverableError \/ BoundedFatalError
  \/ FrameArrives \/ Dispatched
  \/ TimerFires \/ UntimedHeartbeatCheck

SpecSequential == Init /\ [][NextSequential]_vars

\* Connections that fail for good, as often as the manager lets them; no callbacks
NextBackoff ==
  \/ ContendedSubscribe \/ Unsubscribe \/ Returns
  \/ TransportOpen \/ FatalError
  \/ TimerFires \/ UntimedHeartbeatCheck

SpecBackoff == Init /\ [][NextBackoff]_vars

\* Callers outside callbacks, with the clocks of the heartbeat
NextHeartbeat ==
  \/ Subscribe \/ Unsubscribe \/ Returns \/ CallbackReturns
  \/ TransportOpen \/ RecoverableError \/ BoundedFatalError \/ TimerFires
  \/ FrameArrives \/ UnhandledFrame \/ ConnectedEvent \/ Dispatched
  \/ AdvanceTime \/ TimedHeartbeatCheck

SpecHeartbeat == Init /\ [][NextHeartbeat]_vars

\* A state listener watching connections that fail and are opened again
NextReconnect ==
  \/ ContendedSubscribe \/ Returns \/ AddStateListener \/ CallbackReturns
  \/ TransportOpen \/ RecoverableError \/ FatalError \/ TimerFires

SpecReconnect == Init /\ [][NextReconnect]_vars

\* ------------------------------------ HttpClient.makeRequest (130-210)
\* An option of the request: left out, or given
Undefined == [defined |-> FALSE, value |-> 0]
Given(n) == [defined |-> TRUE, value |-> n]

RetryAttemptOptions == {Undefined} \cup {Given(n) : n \in 0..MaxRetryOption}
RetryDelayOptions == {Undefined} \cup {Given(d) : d \in {0, 100, 250}}

\* options.retryAttempts ?? this.config.retryAttempts (136)
RetryAttempts(opt) == IF opt.defined THEN opt.value ELSE defaultRetryAttempts
\* options.retryDelay || this.config.retryDelay (137): 0 is falsy
RetryDelay(opt) == IF opt.defined /\ opt.value # 0 THEN opt.value ELSE defaultRetryDelay

\* How one attempt ends
Status(n) == [kind |-> "status", status |-> n]
Timeout == [kind |-> "timeout", status |-> 0]
Network == [kind |-> "network", status |-> 0]
Statuses == {OK, BAD_REQUEST, UNAUTHORIZED, FORBIDDEN, NOT_FOUND, UNPROCESSABLE_ENTITY,
             TOO_MANY_REQUESTS, INTERNAL_SERVER_ERROR, 501, SERVICE_UNAVAILABLE}

\* parseErrorResponse (ToastContext.tsx 359-396): the class of the error
parseErrorResponse(statusCode) ==
  CASE statusCode = UNAUTHORIZED -> "UnauthorizedError"
    [] statusCode = FORBIDDEN -> "ForbiddenError"
    [] statusCode = NOT_FOUND -> "NotFoundError"
    [] statusCode = UNPROCESSABLE_ENTITY -> "ValidationError"
    [] statusCode = TOO_MANY_REQUESTS -> "RateLimitError"
    [] statusCode \in {BAD_GATEWAY, SERVICE_UNAVAILABLE, GATEWAY_TIMEOUT,
                       INTERNAL_SERVER_ERROR} -> "ServerError"
    [] OTHER -> "ApiError"

\* isRetryableError (ToastContext.tsx 408-423)
isRetryableError(class, statusCode) ==
  \/ class \in {"NetworkError", "TimeoutError", "ServerError"}
  \/ statusCode \in {TOO_MANY_REQUESTS, BAD_GATEWAY, SERVICE_UNAVAILABLE, GATEWAY_TIMEOUT}

\* A retry that waits the same time every time
ConstantDelay(retryDelay, n) == retryDelay

\* retryDelay * Math.pow(2, attempt - 1) (163, 186, 200)
BackoffDelay(retryDelay, n) == retryDelay * (2 ^ (n - 1))

\* ---------------------------------- error interceptors (92-103, 123-125, 169-171)
CustomInterceptors == 1..NumInterceptors

\* An error interceptor never returns: the default one ends in `throw error` (102), and
\* the type ErrorInterceptor (44) lets the application add no other kind
Throws(i) == TRUE

\* for (const interceptor of this.errorInterceptors) await interceptor(error) (169-171):
\* the loop ends at the first interceptor that throws
RECURSIVE InterceptorsRun(_)
InterceptorsRun(list) ==
  IF list = <<>> THEN <<>>
  ELSE IF Throws(Head(list)) THEN <<Head(list)>>
  ELSE <<Head(list)>> \o InterceptorsRun(Tail(list))

\* A handler that takes 403 for a lost session too
ClearsOnForbidden(statusCode) == statusCode \in {UNAUTHORIZED, FORBIDDEN}

\* if (error.statusCode === HTTP_STATUS.UNAUTHORIZED) (94)
ClearsCredentials(statusCode) == statusCode = UNAUTHORIZED

\* addErrorInterceptor (123-125)
AddErrorInterceptor ==
  /\ \E i \in CustomInterceptors :
       /\ i \notin SeqToSet(errorInterceptors)
       /\ errorInterceptors' = Append(errorInterceptors, i)
  /\ UNCHANGED <<sseVars, appVars, retryVars, intercepted, logouts, removals, token>>

\* AuthContext login: localStorage.setItem('aura_token', ...) (AuthContext.tsx 40-44)
Login ==
  /\ ~token
  /\ httpPhase # "done"
  /\ token' = TRUE
  /\ UNCHANGED <<sseVars, appVars, retryVars, intercepted, logouts, removals,
                 errorInterceptors>>

\* request -> makeRequest(url, options): attempt = 1, the abort timer is set (141) and
\* fetch is called (144)
Request ==
  /\ httpPhase = "idle"
  /\ \E ra \in RetryAttemptOptions, rd \in RetryDelayOptions :
       /\ optRetryAttempts' = ra
       /\ optRetryDelay' = rd
  /\ httpPhase' = "fetching"
  /\ attempt' = 1
  /\ timeoutId' = TRUE
  /\ timersStarted' = 1
  /\ fetches' = 1
  /\ delays' = <<>>
  /\ outcomes' = {}
  /\ lastOutcome' = [kind |-> "none", status |-> 0]
  /\ result' = "none"
  /\ intercepted' = <<>>
  /\ logouts' = 0
  /\ removals' = 0
  /\ UNCHANGED <<sseVars, appVars, token, errorInterceptors>>

\* if (<retryable> && attempt < retryAttempts): await the backoff delay (162-166,
\* 185-189, 199-203); otherwise the error is thrown to the caller
RetryOrThrow(retryable, class) ==
  IF retryable /\ attempt < RetryAttempts(optRetryAttempts)
    THEN /\ httpPhase' = "waiting"
         /\ delays' = Append(delays, BackoffDelay(RetryDelay(optRetryDelay), attempt))
         /\ result' = "none"
    ELSE /\ httpPhase' = "done"
         /\ delays' = delays
         /\ result' = class

\* The error interceptors run for an error response that is not retried (169-171); the
\* error an interceptor throws is the one it was given, and the catch block rethrows
\* it (208).  The default handler (93-103) is the one numbered 0.
Intercept(statusCode) ==
  LET run == InterceptorsRun(errorInterceptors)
      clears == 0 \in SeqToSet(run) /\ ClearsCredentials(statusCode)
  IN /\ intercepted' = run
     /\ token' = IF clears THEN FALSE ELSE token
     /\ removals' = IF clears THEN removals + 1 ELSE removals
     /\ logouts' = IF clears THEN logouts + 1 ELSE logouts

\* fetch resolves: clearTimeout (149); a response that is not ok is classified (159),
\* retried or, after the error interceptors (169-171), thrown (173)
Responds ==
  /\ httpPhase = "fetching"
  /\ timeoutId
  /\ \E statusCode \in Statuses :
       /\ outcomes' = outcomes \cup {Status(statusCode)}
       /\ lastOutcome' = Status(statusCode)
       /\ IF statusCode = OK
            THEN /\ httpPhase' = "done"
                 /\ result' = "ok"
                 /\ delays' = delays
                 /\ UNCHANGED <<intercepted, token, removals, logouts>>
            ELSE /\ RetryOrThrow(isRetryableError(parseErrorResponse(statusCode), statusCode),
                                 parseErrorResponse(statusCode))
                 /\ IF httpPhase' = "done"
                      THEN Intercept(statusCode)
                      ELSE UNCHANGED <<intercepted, token, removals, logouts>>
  /\ timeoutId' = FALSE
  /\ UNCHANGED <<sseVars, appVars, optRetryAttempts, optRetryDelay, attempt, fetches,
                 timersStarted, errorInterceptors>>

\* the abort timer fires: fetch rejects with an AbortError (181-192)
Aborts ==
  /\ httpPhase = "fetching"
  /\ timeoutId
  /\ timeoutId' = FALSE
  /\ outcomes' = outcomes \cup {Timeout}
  /\ lastOutcome' = Timeout
  /\ RetryOrThrow(TRUE, "TimeoutError")
  /\ UNCHANGED <<sseVars, appVars, optRetryAttempts, optRetryDelay, attempt, fetches,
                 timersStarted, authVars>>

\* fetch rejects with a TypeError: clearTimeout (178), then (195-206)
NetworkFails ==
  /\ httpPhase = "fetching"
  /\ timeoutId
  /\ timeoutId' = FALSE
  /\ outcomes' = outcomes \cup {Network}
  /\ lastOutcome' = Network
  /\ RetryOrThrow(TRUE, "NetworkError")
  /\ UNCHANGED <<sseVars, appVars, optRetryAttempts, optRetryDelay, attempt, fetches,
                 timersStarted, authVars>>

\* the delay has passed: makeRequest(url, options, attempt + 1) (165, 188, 202)
DelayElapses ==
  /\ httpPhase = "waiting"
  /\ httpPhase' = "fetching"
  /\ attempt' = attempt + 1
  /\ timeoutId' = TRUE
  /\ timersStarted' = timersStarted + 1
  /\ fetches' = fetches + 1
  /\ UNCHANGED <<sseVars, appVars, optRetryAttempts, optRetryDelay, result, delays, outcomes,
                 lastOutcome, authVars>>

\* the caller has its result or its error; the client is ready for the next request
Settles ==
  /\ httpPhase = "done"
  /\ httpPhase' = "idle"
  /\ UNCHANGED <<sseVars, appVars, optRetryAttempts, optRetryDelay, attempt, timeoutId, result,
                 fetches, timersStarted, delays, outcomes, lastOutcome, authVars>>

NextHttp ==
  \/ Request \/ Responds \/ Aborts \/ NetworkFails \/ DelayElapses \/ Settles
  \/ AddErrorInterceptor \/ Login

SpecHttp == Init /\ [][NextHttp]_vars

\* ------------------------------------------- HttpClient.request (215-268)
Truthy(opt) == opt.defined /\ opt.value # 0

\* requestOptions.cacheTTL || this.config.cacheTTL (263): 0 is falsy
CacheTTL(opt) == IF Truthy(opt) THEN opt.value ELSE cacheTTL

CacheTTLOptions == {Undefined} \cup {Given(t) : t \in {0, 1}}

\* getCachedResponse (299-310): the data or null, and the cache it leaves
getCachedResponse(cch, key) ==
  LET entry == cch[key]
  IN IF ~entry.present
       THEN [value |-> Undefined, cache |-> cch]
       ELSE IF now - entry.timestamp > entry.ttl
              THEN [value |-> Undefined, cache |-> [cch EXCEPT ![key] = NoEntry]]
              ELSE [value |-> Given(entry.data), cache |-> cch]

\* cacheResponse (315-321)
cacheResponse(cch, key, data, ttl) ==
  [cch EXCEPT ![key] = [present |-> TRUE, data |-> data, timestamp |-> now, ttl |-> ttl,
                        epoch |-> IF key[2] \in ReadEndpoints THEN epoch[key[2]] ELSE 0]]

\* clearCacheEntry(endpoint), method = 'GET' (333-336), for each endpoint of a set
clearCacheEntry(cch, endpoints) ==
  [k \in DOMAIN cch |-> IF k[1] = "GET" /\ k[2] \in endpoints THEN NoEntry ELSE cch[k]]

\* if (cached) (243)
IsCached(opt) == Truthy(opt)

\* (cacheEnabled && !skipCache && method === 'GET') (237-241, 255-259)
UsesCache(method, skipCache) == cacheEnabled /\ ~skipCache /\ method = "GET"

\* An entry as the claims see it at the start of a call
Freshness(entry) ==
  IF ~entry.present THEN "none"
  ELSE IF now - entry.timestamp <= entry.ttl THEN "fresh" ELSE "expired"

Data(p) == [kind |-> "data", class |-> "", data |-> p]
Error(class) == [kind |-> "error", class |-> class, data |-> 0]

\* The errors with isApiError (ToastContext.tsx 222-344)
ApiErrors == {"ApiError", "NetworkError", "TimeoutError", "UnauthorizedError",
              "ForbiddenError", "NotFoundError", "ValidationError", "RateLimitError",
              "ServerError"}

\* The bodies of a response: JSON text of a value, text that is not JSON, no body
JsonBody(p) == [kind |-> "json", value |-> p]
TextBody == [kind |-> "text", value |-> 0]
NullBody == [kind |-> "null", value |-> 0]
Bodies == {JsonBody(p) : p \in Payloads} \cup {TextBody, NullBody}
ContentTypes == {"application/json", "text/plain", "application/octet-stream", "none"}
Responses == [contentType : ContentTypes, body : Bodies]

\* response.text(): '' is falsy, any other string is truthy
text(body) == IF body.kind = "null" THEN 0 ELSE MaxPayload

\* parseResponse (273-294).  response.json() rejects with a SyntaxError on a body that
\* is not JSON; after it has read a body, response.text() rejects with a TypeError
\* (the body is used), and resolves to '' where there is no body.
parseResponse(response) ==
  LET body == response.body
  IN CASE response.contentType = "application/json" ->
            IF body.kind = "json" THEN Data(body.value) ELSE Error("SyntaxError")
       [] response.contentType = "text/plain" -> Data(text(body))
       [] response.contentType = "application/octet-stream" -> Data(MaxPayload)
       [] OTHER ->
            IF body.kind = "json" THEN Data(body.value)
            ELSE IF body.kind = "null" THEN Data(text(body))
            ELSE Error("TypeError")

\* What makeRequest rejects with when it fails (157-209): the classified error of a
\* response, a TimeoutError, a NetworkError
MakeRequestErrors ==
  {parseErrorResponse(statusCode) : statusCode \in {NOT_FOUND, SERVICE_UNAVAILABLE}}
    \cup {"TimeoutError", "NetworkError"}

\* What an interceptor of the application may throw
Thrown == {"Error", "TypeError"}

\* The catch block of makeRequest (177-209) on what a response interceptor threw (154)
Rethrown(thrown) == IF thrown = "TypeError" THEN "NetworkError" ELSE thrown

\* request(endpoint, options) up to its first await of the network (215-249), on the
\* cache cch: the request interceptors (229-233), then the cache (236-246), then fetch
request(c, op, method, url, skipCache, optTTL, cch) ==
  LET key == <<method, url>>
      reads == UsesCache(method, skipCache)
      got == IF reads THEN getCachedResponse(cch, key)
             ELSE [value |-> Undefined, cache |-> cch]
      hit == reads /\ IsCached(got.value)
      entry == cch[<<"GET", url>>]
  IN /\ calls[c].phase = "idle"
     /\ cache' = got.cache
     /\ calls' = [calls EXCEPT ![c] =
          [phase |-> IF hit THEN "done" ELSE "fetching",
           op |-> op, method |-> method, url |-> url,
           skipCache |-> skipCache,
           optCacheTTL |-> IF hit THEN Undefined ELSE optTTL,
           network |-> ~hit,
           atStart |-> IF reads THEN Freshness(entry) ELSE "none",
           expected |-> IF reads THEN entry.data ELSE 0,
           evicted |-> entry.present /\ ~got.cache[<<"GET", url>>].present,
           stale |-> hit /\ url \in ReadEndpoints /\ entry.epoch < epoch[url],
           outcome |-> IF hit THEN Data(got.value.value) ELSE NoOutcome]]

\* httpClient.get / post / put / delete called by the application (api.ts 22-36)
HttpCall(C, U, M, SkipOptions, TTLOptions) ==
  /\ \E c \in C, url \in U, method \in M, skipCache \in SkipOptions,
        optTTL \in TTLOptions :
       request(c, "none", method, url, skipCache, optTTL, cache)
  /\ UNCHANGED <<sseVars, httpVars, sessionVars, flowVars, now, customInterceptors, epoch>>

Sequential == {1}

\* A request interceptor of the application throws (230): request rejects with what
\* was thrown, before the cache and the network
RequestInterceptorThrows ==
  /\ customInterceptors
  /\ \E c \in Sequential, url \in {INFLUENCERS}, method \in {"GET", "POST"}, thrown \in Thrown :
       /\ calls[c].phase = "idle"
       /\ calls' = [calls EXCEPT ![c] =
            [IdleCall EXCEPT !.phase = "done", !.method = method, !.url = url,
                             !.outcome = Error(thrown)]]
  /\ UNCHANGED <<sseVars, httpVars, sessionVars, flowVars, cache, now, customInterceptors,
                 epoch>>

\* makeRequest rejects (249): request rejects with the same error
Rejects ==
  /\ \E c \in Callers, class \in MakeRequestErrors :
       /\ calls[c].phase = "fetching"
       /\ calls' = [calls EXCEPT ![c].phase = "done", ![c].optCacheTTL = Undefined,
                                 ![c].outcome = Error(class)]
  /\ UNCHANGED <<sseVars, httpVars, sessionVars, flowVars, cache, now, customInterceptors,
                 epoch>>

\* A response interceptor of the application throws (154)
ResponseInterceptorThrows ==
  /\ customInterceptors
  /\ \E c \in Callers, thrown \in Thrown :
       /\ calls[c].phase = "fetching"
       /\ calls' = [calls EXCEPT ![c].phase = "done", ![c].optCacheTTL = Undefined,
                                 ![c].outcome = Error(Rethrown(thrown))]
  /\ UNCHANGED <<sseVars, httpVars, sessionVars, flowVars, cache, now, customInterceptors,
                 epoch>>

\* The read endpoints a service operation changes on the server
Affects(op) ==
  CASE op \in {"influencerApi.create", "api.createInfluencer"} -> {INFLUENCERS}
    [] op \in {"influencerApi.update", "influencerApi.delete", "api.updateInfluencer"} ->
         {INFLUENCERS, INFLUENCER_BY_ID}
    [] op \in {"postingApi.create", "postingApi.delete"} -> {POSTS_BY_INFLUENCER}
    [] op \in {"creationService.startCreation", "creationService.discardSession"} ->
         {CREATION_ACTIVE}
    [] op = "creationService.confirmCreation" -> {CREATION_ACTIVE, INFLUENCERS}
    [] OTHER -> {}

\* makeRequest resolves (249): parseResponse (252), the cache (255-265), return (267).
\* The server has completed the mutation of a service operation that is answered.
resolved(c, response) ==
  LET call == calls[c]
      parsed == parseResponse(response)
  IN /\ call.phase = "fetching"
     /\ calls' = [calls EXCEPT ![c].phase = "done", ![c].optCacheTTL = Undefined,
                               ![c].outcome = parsed]
     /\ cache' = IF parsed.kind = "data" /\ UsesCache(call.method, call.skipCache)
                   THEN cacheResponse(cache, <<call.method, call.url>>, parsed.data,
                                      CacheTTL(call.optCacheTTL))
                   ELSE cache
     /\ epoch' = [u \in ReadEndpoints |->
                    IF u \in Affects(call.op) THEN epoch[u] + 1 ELSE epoch[u]]

Resolves(R) ==
  /\ \E c \in Callers, response \in R : resolved(c, response)
  /\ UNCHANGED <<sseVars, httpVars, sessionVars, flowVars, now, customInterceptors>>

\* The caller has the outcome of its call
Returned ==
  /\ \E c \in Callers :
       /\ calls[c].phase = "done"
       /\ calls' = [calls EXCEPT ![c] = IdleCall]
  /\ UNCHANGED <<sseVars, httpVars, sessionVars, flowVars, cache, now, customInterceptors,
                 epoch>>

\* The instants at which the model looks at the clock: around the start and around
\* the default TTL after it
Instants == {t \in {0, 1, 2, cacheTTL, cacheTTL + 1, cacheTTL + 2} : t <= MaxNow}

\* Time passes
Tick ==
  /\ \E t \in Instants :
       /\ t > now
       /\ now' = t
  /\ UNCHANGED <<sseVars, httpVars, sessionVars, flowVars, cache, calls, customInterceptors,
                 epoch>>

\* addRequestInterceptor, addResponseInterceptor (109-118)
AddInterceptors ==
  /\ ~customInterceptors
  /\ customInterceptors' = TRUE
  /\ UNCHANGED <<sseVars, httpVars, sessionVars, flowVars, cache, now, calls, epoch>>

\* One caller that awaits each call before the next: GETs of one endpoint with any
\* options, POSTs to it, any response
Get == HttpCall(Sequential, {INFLUENCERS}, {"GET"}, BOOLEAN, CacheTTLOptions)
Post == HttpCall(Sequential, {INFLUENCERS}, {"POST"}, {FALSE}, {Undefined})
AnyResponse == Resolves(Responses)

NextClient ==
  \/ Get \/ Post \/ RequestInterceptorThrows \/ Rejects \/ ResponseInterceptorThrows
  \/ AnyResponse \/ Returned \/ Tick \/ AddInterceptors

SpecClient == Init /\ [][NextClient]_vars

\* ------------------------ the cache and the bearer token (64-104, 235-268)
Tokens == 1..NumTokens
Unbearing == <<sseVars, httpVars, mirrorVars, orchSessionVars, flowVars>>

\* AuthContext login (AuthContext.tsx 41-46): the token is stored, over the one there
login ==
  /\ \E t \in Tokens : t # bearer /\ bearer' = t
  /\ UNCHANGED <<Unbearing, clientVars, sentWith, cachedUnder>>

\* AuthContext logout (AuthContext.tsx 48-52)
logout ==
  /\ bearer # 0
  /\ bearer' = 0
  /\ UNCHANGED <<Unbearing, clientVars, sentWith, cachedUnder>>

\* A GET of the list of influencers: the auth interceptor reads the token (66-77),
\* then the cache is looked up under `GET:url` (235-247)
AuthorizedGet ==
  /\ request(1, "none", "GET", INFLUENCERS, FALSE, Undefined, cache)
  /\ sentWith' = bearer
  /\ UNCHANGED <<Unbearing, now, customInterceptors, epoch, bearer, cachedUnder>>

\* The backend answers the request with the data of the user of its token
AuthorizedResponse ==
  /\ sentWith # 0
  /\ \E p \in Payloads :
       resolved(1, [contentType |-> "application/json", body |-> JsonBody(p)])
  /\ cachedUnder' = IF cache' # cache THEN sentWith ELSE cachedUnder
  /\ UNCHANGED <<Unbearing, now, customInterceptors, bearer, sentWith>>

\* The backend answers 401: the default error interceptor removes the token (93-103)
Unauthorized ==
  /\ calls[1].phase = "fetching"
  /\ calls' = [calls EXCEPT ![1].phase = "done", ![1].optCacheTTL = Undefined,
                            ![1].outcome = Error(parseErrorResponse(UNAUTHORIZED))]
  /\ bearer' = 0
  /\ UNCHANGED <<Unbearing, cache, now, customInterceptors, epoch, sentWith, cachedUnder>>

NextBearer ==
  \/ login \/ logout \/ AuthorizedGet \/ AuthorizedResponse \/ Unauthorized
  \/ Returned \/ Tick

SpecBearer == Init /\ [][NextBearer]_vars

\* ------------------- the services (api.ts 83-159, AuthContext.tsx 96-185)
ServiceOps ==
  {"influencerApi.create", "influencerApi.update", "influencerApi.delete",
   "api.createInfluencer", "api.updateInfluencer", "postingApi.create", "postingApi.delete",
   "creationService.startCreation", "creationService.discardSession",
   "creationService.confirmCreation"}

\* The method of the request a service operation makes
MutationMethod(op) ==
  CASE op \in {"influencerApi.update", "api.updateInfluencer"} -> "PUT"
    [] op \in {"influencerApi.delete", "postingApi.delete",
               "creationService.discardSession"} -> "DELETE"
    [] OTHER -> "POST"

\* The endpoint of that request
MutationEndpoint(op) ==
  CASE op \in {"influencerApi.create", "api.createInfluencer"} -> INFLUENCERS
    [] op \in {"influencerApi.update", "influencerApi.delete", "api.updateInfluencer"} ->
         INFLUENCER_BY_ID
    [] op = "postingApi.create" -> POSTS_CREATE
    [] op = "postingApi.delete" -> POST_BY_ID
    [] op = "creationService.startCreation" -> CREATION_START
    [] op = "creationService.discardSession" -> CREATION_SESSION
    [] OTHER -> CREATION_CONFIRM

\* The endpoints whose entries the operation clears, before it awaits its request:
\* influencerApi.update (112-113) and delete (122-123), postingApi.create (149)
Clears(op) ==
  CASE op \in {"influencerApi.update", "influencerApi.delete"} ->
         {INFLUENCERS, INFLUENCER_BY_ID}
    [] op = "postingApi.create" -> {POSTS_BY_INFLUENCER}
    [] OTHER -> {}

\* influencerApi.list / get, postingApi.listByInfluencer, creationService.getActiveSession
ServiceRead == HttpCall(Callers, ReadEndpoints, {"GET"}, {FALSE}, {Undefined})

\* A mutating operation of a service: clearCacheEntry where the code has it, then the
\* request.  One caller makes the mutations, one after the other; every caller reads.
ServiceMutation ==
  /\ \E c \in Sequential, op \in ServiceOps :
       /\ \A u \in Affects(op) : epoch[u] < MaxMutations
       /\ request(c, op, MutationMethod(op), MutationEndpoint(op), FALSE, Undefined,
                  clearCacheEntry(cache, Clears(op)))
  /\ UNCHANGED <<sseVars, httpVars, sessionVars, flowVars, now, customInterceptors, epoch>>

\* The backend answers with a JSON object
ServiceResponse ==
  Resolves({[contentType |-> "application/json", body |-> JsonBody(MaxPayload)]})

NextService == ServiceRead \/ ServiceMutation \/ ServiceResponse \/ Returned

SpecService == Init /\ [][NextService]_vars

\* --------------------------------------- CreationFlow (CreationFlow.tsx)
CreationStatuses == {"pending", "generating_images", "images_ready", "generating_persona",
                     "persona_ready", "complete", "failed"}
Avatars == 1..NumAvatars
\* avatar_urls of an event or of a session of the backend: left out, or the URLs
NoUrls == [defined |-> FALSE, value |-> <<>>]
AvatarUrls == [defined |-> TRUE, value |-> [i \in Avatars |-> i]]

\* A handler that adds the URLs of an event to the ones it has
AppendUrls(prev, avatar_urls) ==
  IF avatar_urls.defined THEN prev \o avatar_urls.value ELSE prev

\* ...(avatar_urls && { avatar_urls }) (96)
MergeUrls(prev, avatar_urls) ==
  IF avatar_urls.defined THEN avatar_urls.value ELSE prev

\* The step after a status_update (103-110)
StepAfter(status, persona) ==
  IF status = "images_ready" THEN "select_avatar"
  ELSE IF status = "persona_ready" /\ persona THEN "review"
  ELSE step

\* The error after a status_update (111-113): errMsg || "Creation failed"
ErrorAfter(status, errMsg) ==
  IF status = "failed"
    THEN (IF errMsg THEN "errMsg" ELSE "Creation failed")
    ELSE error

\* The sequence of events of C18, and how far a behaviour is into it
ClaimedSequence == <<"pending", "generating_images", "images_ready", "images_ready">>
ScenarioAfter(status, avatar_urls) ==
  IF /\ scenario >= 0
     /\ scenario < Len(ClaimedSequence)
     /\ status = ClaimedSequence[scenario + 1]
     /\ (status = "images_ready" => avatar_urls = AvatarUrls)
    THEN scenario + 1
    ELSE -1

\* The step checkActiveSession sets for the status of the active session (126-150),
\* where st is the step it finds
RestoredStep(status, st) ==
  CASE status = "images_ready" -> "select_avatar"
    [] status \in {"generating_images", "pending"} -> "generating_images"
    [] status = "generating_persona" -> "generating_persona"
    [] status = "persona_ready" -> "review"
    [] OTHER -> st

\* The check for an active session on mount resolves (118-158)
CheckActiveSession ==
  /\ isLoadingSession
  /\ isLoadingSession' = FALSE
  /\ \/ UNCHANGED <<step, session, selectedAvatar, creationFailed>>
     \/ \E status \in CreationStatuses, selected \in {0, 1} :
          /\ session' = [present |-> TRUE, status |-> status,
                         avatar_urls |-> IF status \in {"pending", "generating_images"}
                                           THEN <<>> ELSE AvatarUrls.value]
          /\ step' = RestoredStep(status, step)
          /\ selectedAvatar' = IF status \in {"generating_persona", "persona_ready"}
                                 THEN selected ELSE selectedAvatar
          /\ creationFailed' = (status = "failed")
  /\ UNCHANGED <<sseVars, httpVars, sessionVars, clientVars, orchVars, postVars, error,
                 awaiting, scenario>>

\* The callback of useSSESubscription (84-114) on one status_update
statusUpdate(status, avatar_urls, persona, errMsg) ==
  /\ session' = IF session.present
                  THEN [session EXCEPT !.status = status,
                                       !.avatar_urls = MergeUrls(@, avatar_urls)]
                  ELSE session
  /\ step' = StepAfter(status, persona)
  /\ error' = ErrorAfter(status, errMsg)
  /\ scenario' = ScenarioAfter(status, avatar_urls)
  /\ creationFailed' = (creationFailed \/ status = "failed")
  /\ UNCHANGED <<sseVars, httpVars, clientVars, orchVars, postVars, selectedAvatar,
                 isLoadingSession, awaiting>>

\* A status_update of the session arrives: the subscription exists while session.id
\* is set (82-83)
StatusUpdate ==
  /\ session.present
  /\ \E status \in CreationStatuses, avatar_urls \in {NoUrls, AvatarUrls},
        persona \in BOOLEAN, errMsg \in BOOLEAN :
       statusUpdate(status, avatar_urls, persona, errMsg)
  /\ UNCHANGED sessionVars

\* What the user can do: the page is shown and no handler is awaiting its call
Ready == ~isLoadingSession /\ awaiting = "none"

\* handleStart (180-197) up to its await
handleStart ==
  /\ Ready
  /\ step = "input"
  /\ error' = "null"
  /\ step' = "generating_images"
  /\ awaiting' = "startCreation"
  /\ scenario' = -1
  /\ creationFailed' = FALSE
  /\ UNCHANGED <<sseVars, httpVars, sessionVars, clientVars, orchVars, postVars, session,
                 selectedAvatar, isLoadingSession>>

\* handleSelectAvatar (200-213) up to its await
handleSelectAvatar ==
  /\ Ready
  /\ step = "select_avatar"
  /\ session.present
  /\ selectedAvatar # 0
  /\ step' = "generating_persona"
  /\ error' = "null"
  /\ awaiting' = "selectAvatar"
  /\ scenario' = -1
  /\ creationFailed' = FALSE
  /\ UNCHANGED <<sseVars, httpVars, sessionVars, clientVars, orchVars, postVars, session,
                 selectedAvatar, isLoadingSession>>

\* handleConfirm (216-233) up to its await
handleConfirm ==
  /\ Ready
  /\ step = "review"
  /\ session.present
  /\ error' = "null"
  /\ awaiting' = "confirmCreation"
  /\ scenario' = -1
  /\ creationFailed' = FALSE
  /\ UNCHANGED <<sseVars, httpVars, sessionVars, clientVars, orchVars, postVars, step, session,
                 selectedAvatar, isLoadingSession>>

\* handleDiscard (161-177) up to its await
handleDiscard ==
  /\ Ready
  /\ session.present
  /\ awaiting' = "discardSession"
  /\ scenario' = -1
  /\ UNCHANGED <<sseVars, httpVars, sessionVars, clientVars, orchVars, postVars, step, session,
                 selectedAvatar, error, isLoadingSession, creationFailed>>

\* The awaited call resolves: the rest of the try block
CallResolves ==
  /\ awaiting # "none"
  /\ awaiting' = "none"
  /\ CASE awaiting = "startCreation" ->
            /\ session' = [present |-> TRUE, status |-> "pending", avatar_urls |-> <<>>]
            /\ scenario' = 0
            /\ UNCHANGED <<step, selectedAvatar, error, creationFailed>>
       [] awaiting = "confirmCreation" ->
            /\ step' = "complete"
            /\ UNCHANGED <<session, selectedAvatar, error, scenario, creationFailed>>
       [] awaiting = "discardSession" ->
            /\ session' = NoSession
            /\ step' = "input"
            /\ selectedAvatar' = 0
            /\ error' = "null"
            /\ creationFailed' = FALSE
            /\ UNCHANGED scenario
       [] OTHER -> UNCHANGED <<step, session, selectedAvatar, error, scenario, creationFailed>>
  /\ UNCHANGED <<sseVars, httpVars, sessionVars, clientVars, orchVars, postVars,
                 isLoadingSession>>

\* The awaited call rejects: the catch block
CallRejects ==
  /\ awaiting # "none"
  /\ awaiting' = "none"
  /\ error' = "err.message"
  /\ step' = CASE awaiting = "startCreation" -> "input"
               [] awaiting = "selectAvatar" -> "select_avatar"
               [] OTHER -> step
  /\ scenario' = -1
  /\ UNCHANGED <<sseVars, httpVars, sessionVars, clientVars, orchVars, postVars, session,
                 selectedAvatar, isLoadingSession, creationFailed>>

\* onSelect of the AvatarSelector (392-397)
onSelect ==
  /\ Ready
  /\ step = "select_avatar"
  /\ session.present
  /\ \E a \in Avatars :
       /\ a \in SeqToSet(session.avatar_urls)
       /\ selectedAvatar' = a
  /\ scenario' = -1
  /\ UNCHANGED <<sseVars, httpVars, sessionVars, clientVars, orchVars, postVars, step,
                 session, error, isLoadingSession, awaiting, creationFailed>>

\* The Back button of the review step (524-528)
Back ==
  /\ Ready
  /\ step = "review"
  /\ step' = "select_avatar"
  /\ selectedAvatar' = 0
  /\ scenario' = -1
  /\ UNCHANGED <<sseVars, httpVars, sessionVars, clientVars, orchVars, postVars, session, error,
                 isLoadingSession, awaiting, creationFailed>>

NextCreation ==
  \/ CheckActiveSession \/ StatusUpdate \/ handleStart \/ handleSelectAvatar
  \/ handleConfirm \/ handleDiscard \/ CallResolves \/ CallRejects \/ onSelect \/ Back

SpecCreation == Init /\ [][NextCreation]_vars

\* ------------------- the creation flow, its subscription and the backend's session
\* The resources of this part: the session of the page and one of another component
SessionResource == "session:{id}"
OtherResource == "other"

\* What the page, the transport and the backend of this part leave alone
Unmirrored == <<orchSessionVars, bearerVars>>

\* subscribe and the unsubscribe handle (sse.ts 81-125) end in reconnect (368-371):
\* disconnect, then connect if a subscription is left; connect (163-181) opens an
\* EventSource on the resources subscribed now
Reconnected(keys) ==
  /\ resourceKeys' = keys
  /\ channel' = IF keys = {} THEN "none" ELSE "connecting"
  /\ channelResources' = keys

\* The backend emits a status_update of the session: it is written to the stream that
\* is open on the resource, and the callback of the page runs; with no such stream
\* the event reaches nobody
Pushed(status, avatar_urls, persona) ==
  IF channel = "open" /\ SessionResource \in channelResources
    THEN statusUpdate(status, avatar_urls, persona, FALSE)
    ELSE UNCHANGED <<sseVars, httpVars, clientVars, flowVars>>

\* The page is mounted and finds no active session (118-158)
NoActiveSession ==
  /\ CheckActiveSession
  /\ ~session'.present

\* What the user does on the page
UserActs == handleStart \/ onSelect \/ handleSelectAvatar

\* The request of startCreation or of selectAvatar reaches the backend, which starts
\* the generation in the background
BackendAccepts ==
  /\ \/ awaiting = "startCreation" /\ server = "none" /\ server' = "generating_images"
     \/ awaiting = "selectAvatar" /\ server = "images_ready"
          /\ server' = "generating_persona"
  /\ UNCHANGED <<sseVars, httpVars, clientVars, flowVars, Unmirrored, channel,
                 channelResources, resourceKeys>>

\* The response of the accepted request arrives (186-190, 207)
Accepted ==
  /\ \/ awaiting = "startCreation" /\ server # "none"
     \/ awaiting = "selectAvatar" /\ server \in {"generating_persona", "persona_ready"}
  /\ CallResolves

\* The effect of useSSESubscription (sse.ts 426-463) after session.id was set
EffectSubscribes ==
  /\ session.present
  /\ SessionResource \notin resourceKeys
  /\ Reconnected(resourceKeys \cup {SessionResource})
  /\ UNCHANGED <<sseVars, httpVars, clientVars, flowVars, Unmirrored, server>>

\* Another component subscribes to its resource, or unsubscribes from it
OtherComponent ==
  /\ Reconnected(IF OtherResource \in resourceKeys THEN resourceKeys \ {OtherResource}
                                            ELSE resourceKeys \cup {OtherResource})
  /\ UNCHANGED <<sseVars, httpVars, clientVars, flowVars, Unmirrored, server>>

\* onopen (sse.ts 184-195)
ChannelOpens ==
  /\ channel = "connecting"
  /\ channel' = "open"
  /\ UNCHANGED <<sseVars, httpVars, clientVars, flowVars, Unmirrored, server,
                 channelResources, resourceKeys>>

\* The generation of the backend ends, and the backend emits the new status
BackendFinishes ==
  /\ \/ /\ server = "generating_images"
        /\ server' = "images_ready"
        /\ Pushed("images_ready", AvatarUrls, FALSE)
     \/ /\ server = "generating_persona"
        /\ server' = "persona_ready"
        /\ Pushed("persona_ready", NoUrls, TRUE)
  /\ UNCHANGED <<Unmirrored, channel, channelResources, resourceKeys>>

NextMirror ==
  \/ NoActiveSession \/ UserActs \/ BackendAccepts \/ Accepted \/ EffectSubscribes
  \/ OtherComponent \/ ChannelOpens \/ BackendFinishes

\* Fair scheduling: every step of the page, of the transport and of the backend that
\* can be taken is taken; the user and the other component act when they like
FairMirror ==
  /\ WF_vars(NoActiveSession) /\ WF_vars(BackendAccepts) /\ WF_vars(Accepted)
  /\ WF_vars(EffectSubscribes) /\ WF_vars(ChannelOpens) /\ WF_vars(BackendFinishes)

SpecMirror == Init /\ [][NextMirror]_vars /\ FairMirror

\* ------------------------------- OrchestratorFlow (OrchestratorFlow.tsx)
OrchestratorPhases == {"planning", "plan_review", "research", "selection", "generation",
                       "complete", "error"}
OrchestratorEvents == {"orch_planning", "orch_plan_ready", "orch_researching",
                       "orch_research_ready", "orch_generating", "orch_post_ready",
                       "orch_error"}

\* phaseToStep (67-86)
phaseToStep(phase) ==
  CASE phase = "planning" -> 1
    [] phase \in {"plan_review", "research"} -> 2
    [] phase \in {"selection", "generation"} -> 3
    [] phase = "complete" -> 4
    [] OTHER -> 1

\* phaseIsLoading (87-89)
phaseIsLoading(phase) == phase \in {"planning", "research", "generation"}

\* handleSSE (212-252) on an event of one type
handleEvent(eventType) ==
  /\ CASE eventType \in {"orch_planning", "orch_researching", "orch_generating"} ->
              /\ statusMsg' = TRUE
              /\ UNCHANGED <<currentStep, loading, orchError, orchFailed>>
         [] eventType \in {"orch_plan_ready", "orch_research_ready", "orch_post_ready"} ->
              /\ currentStep' = CASE eventType = "orch_plan_ready" -> 2
                                  [] eventType = "orch_research_ready" -> 3
                                  [] OTHER -> 4
              /\ loading' = FALSE
              /\ statusMsg' = FALSE
              /\ UNCHANGED <<orchError, orchFailed>>
         [] OTHER ->
              /\ orchError' = TRUE
              /\ loading' = FALSE
              /\ statusMsg' = FALSE
              /\ orchFailed' = TRUE
              /\ UNCHANGED currentStep
  /\ UNCHANGED <<sseVars, httpVars, clientVars, creationVars, postVars, restoringSession,
                 orchAwaiting>>

\* The callback of the subscription to orchestrator:{sessionId} (254-261) is called
handleSSE ==
  /\ \E eventType \in OrchestratorEvents : handleEvent(eventType)
  /\ UNCHANGED sessionVars

\* The restore on mount resolves (262-291): no stored session or a failed fetch, or
\* the session of the backend
RestoreSession ==
  /\ restoringSession
  /\ restoringSession' = FALSE
  /\ \/ UNCHANGED <<currentStep, loading, orchFailed>>
     \/ \E phase \in OrchestratorPhases :
          /\ currentStep' = phaseToStep(phase)
          /\ loading' = phaseIsLoading(phase)
          /\ orchFailed' = (phase = "error")
  /\ UNCHANGED <<sseVars, httpVars, sessionVars, clientVars, creationVars, postVars,
                 statusMsg, orchError, orchAwaiting>>

\* handleStart (321-337), handleEditPlan (339-356), handleSubmitSelections (358-371)
\* up to their await
OrchestratorAction ==
  /\ ~restoringSession
  /\ ~orchAwaiting
  /\ ~loading
  /\ currentStep \in 1..3
  /\ loading' = TRUE
  /\ orchError' = FALSE
  /\ orchAwaiting' = TRUE
  /\ orchFailed' = FALSE
  /\ UNCHANGED <<sseVars, httpVars, sessionVars, clientVars, creationVars, postVars,
                 currentStep, statusMsg, restoringSession>>

\* The awaited call resolves
OrchestratorCallResolves ==
  /\ orchAwaiting
  /\ orchAwaiting' = FALSE
  /\ UNCHANGED <<sseVars, httpVars, sessionVars, clientVars, creationVars, postVars,
                 currentStep, loading, statusMsg, orchError, restoringSession, orchFailed>>

\* The awaited call rejects: the catch blocks (333-336, 352-355, 367-370)
OrchestratorCallRejects ==
  /\ orchAwaiting
  /\ orchAwaiting' = FALSE
  /\ orchError' = TRUE
  /\ loading' = FALSE
  /\ UNCHANGED <<sseVars, httpVars, sessionVars, clientVars, creationVars, postVars,
                 currentStep, statusMsg, restoringSession, orchFailed>>

\* handleReset (299-319)
handleReset ==
  /\ ~restoringSession
  /\ ~orchAwaiting
  /\ currentStep' = 1
  /\ orchError' = FALSE
  /\ loading' = FALSE
  /\ statusMsg' = FALSE
  /\ orchFailed' = FALSE
  /\ UNCHANGED <<sseVars, httpVars, sessionVars, clientVars, creationVars, postVars,
                 restoringSession, orchAwaiting>>

NextOrchestrator ==
  \/ handleSSE \/ RestoreSession \/ OrchestratorAction \/ OrchestratorCallResolves
  \/ OrchestratorCallRejects \/ handleReset

\* -------------------- the session of OrchestratorFlow, its fetches and its channel
Others == <<sseVars, httpVars, clientVars, creationVars, postVars, mirrorVars,
           bearerVars>>

\* setSession(s), and the effect that keeps editingPlan in sync (293-296): it runs when
\* session?.research_plan is another value than at the last render, and every response
\* is a new object
setSession(s) ==
  /\ orchSession' = s
  /\ editingPlan' = IF s.present /\ s.plan # 0 THEN [plan |-> s.plan, name |-> "server"]
                                               ELSE editingPlan

\* The restore on mount finds no stored session id (265-270)
NothingStored ==
  /\ storedSessionId = 0
  /\ RestoreSession
  /\ UNCHANGED <<currentStep, loading, orchFailed>>

\* The effect that subscribes to orchestrator:{sessionId} (254-261), with its cleanup
SubscribeEffect ==
  /\ effectSessionId # sessionId
  /\ effectSessionId' = sessionId
  /\ unsubRef' = sessionId
  /\ UNCHANGED <<Others, orchVars, sessionId, storedSessionId, resetting, orchSession,
                 editingPlan, sessionFetches, backendSessions, resetLog>>

\* handleStart (321-337): startOrchestrator, then getOrchestratorSession(r.session_id)
startSession ==
  /\ ~restoringSession
  /\ resetting = 0
  /\ currentStep = 1
  /\ ~loading
  /\ loading' = TRUE
  /\ orchError' = FALSE
  /\ storedSessionId' = sessionId
  /\ sessionFetches' = sessionFetches \cup {sessionId}
  /\ backendSessions' = backendSessions \cup {sessionId}
  /\ UNCHANGED <<Others, currentStep, statusMsg, restoringSession, orchAwaiting, orchFailed,
                 sessionId, unsubRef, effectSessionId, resetting, orchSession, editingPlan,
                 resetLog>>

\* refreshSession (206-210) of the callback subscribed: its sessionId is the one of
\* the render that made the callback
refreshSession(inFlight) == inFlight \cup {unsubRef}

\* An event of the channel subscribed arrives: handleSSE (212-252)
OrchestratorEvent ==
  /\ unsubRef \in backendSessions
  /\ \E eventType \in OrchestratorEvents :
       /\ handleEvent(eventType)
       /\ sessionFetches' =
            IF eventType \in {"orch_plan_ready", "orch_research_ready", "orch_post_ready"}
              THEN refreshSession(sessionFetches)
              ELSE sessionFetches
  /\ UNCHANGED <<mirrorVars, bearerVars, sessionId, storedSessionId, unsubRef,
                 effectSessionId, resetting, orchSession, editingPlan, backendSessions,
                 resetLog>>

\* A getOrchestratorSession in flight resolves, and its caller calls setSession (208,
\* 332); or it rejects (209)
SessionResponse ==
  /\ \E id \in sessionFetches :
       /\ sessionFetches' = sessionFetches \ {id}
       /\ \/ \E plan \in Plans : setSession([present |-> TRUE, id |-> id, plan |-> plan])
          \/ UNCHANGED <<orchSession, editingPlan>>
  /\ UNCHANGED <<Others, orchVars, sessionId, storedSessionId, unsubRef, effectSessionId,
                 resetting, backendSessions, resetLog>>

\* updateSubTask (386-387) on the name of the task t1
updateSubTask ==
  /\ currentStep = 2
  /\ ~loading
  /\ editingPlan.plan # 0
  /\ editingPlan.name # "edited"
  /\ editingPlan' = [editingPlan EXCEPT !.name = "edited"]
  /\ UNCHANGED <<Others, orchVars, sessionId, storedSessionId, unsubRef, effectSessionId,
                 resetting, orchSession, sessionFetches, backendSessions, resetLog>>

\* handleReset (299-303) up to its await; the button is shown for session ||
\* currentStep > 1 (417)
resetBegins ==
  /\ ~restoringSession
  /\ resetting = 0
  /\ orchSession.present \/ currentStep > 1
  /\ sessionId < NumSessionIds
  /\ unsubRef' = 0
  /\ resetting' = sessionId
  /\ resetLog' = <<"unsubscribe", "delete">>
  /\ UNCHANGED <<Others, orchVars, sessionId, storedSessionId, effectSessionId,
                 orchSession, editingPlan, sessionFetches, backendSessions>>

\* handleReset after its await (304-318), resetSession resolved or rejected
resetEnds ==
  /\ resetting # 0
  /\ resetting' = 0
  /\ storedSessionId' = resetting + 1
  /\ sessionId' = resetting + 1
  /\ orchSession' = NoOrchSession
  /\ editingPlan' = EmptyPlan
  /\ currentStep' = 1
  /\ orchError' = FALSE
  /\ loading' = FALSE
  /\ statusMsg' = FALSE
  /\ orchFailed' = FALSE
  /\ resetLog' = resetLog \o <<"clear", "initial">>
  /\ UNCHANGED <<Others, restoringSession, orchAwaiting, unsubRef, effectSessionId,
                 sessionFetches, backendSessions>>

NextSession ==
  \/ NothingStored \/ SubscribeEffect \/ startSession \/ OrchestratorEvent
  \/ SessionResponse \/ updateSubTask \/ resetBegins \/ resetEnds

SpecSession == Init /\ [][NextSession]_vars

\* ---------------------------- the posts of InfluencerContext (45-266, 347-391)
PostCreationStatuses == {"pending", "generating_story", "generating_images",
                         "generating_video", "video_ready", "video_failed", "ready",
                         "published", "failed"}
PostFailures == {"failed", "video_failed"}

\* The callback of the subscription on a post_update of the post (143-263)
PostUpdate ==
  /\ \E status \in PostCreationStatuses, hasError \in BOOLEAN :
       IF postStatus = "absent"
         THEN IF status \in {"pending", "generating_story"}
                THEN /\ postStatus' = status
                     /\ postError' = hasError
                     /\ UNCHANGED postFailed
                ELSE UNCHANGED <<postStatus, postError, postFailed>>
         ELSE /\ postStatus' = status
              /\ postError' = (postError \/ hasError)
              /\ postFailed' = (postFailed \/ status \in PostFailures)
  /\ UNCHANGED <<sseVars, httpVars, sessionVars, clientVars, creationVars, orchVars>>

\* fetchData (45-128): the posts as the backend has them
fetchData ==
  /\ \E status \in PostCreationStatuses :
       /\ postStatus' = status
       /\ postError' = (status \in PostFailures)
       /\ postFailed' = (status \in PostFailures)
  /\ UNCHANGED <<sseVars, httpVars, sessionVars, clientVars, creationVars, orchVars>>

\* generatePost (347-391): the new post, or the post again
generatePost ==
  /\ postStatus' = "pending"
  /\ postError' = FALSE
  /\ postFailed' = FALSE
  /\ UNCHANGED <<sseVars, httpVars, sessionVars, clientVars, creationVars, orchVars>>

NextPost == PostUpdate \/ fetchData \/ generatePost

\* ------------------------------------------- one consumer at a time
CreationUnmounted ==
  /\ step = "input" /\ session = NoSession /\ selectedAvatar = 0 /\ error = "null"
  /\ isLoadingSession /\ awaiting = "none" /\ scenario = -1 /\ ~creationFailed
OrchestratorUnmounted ==
  /\ currentStep = 1 /\ ~loading /\ ~statusMsg /\ ~orchError /\ restoringSession
  /\ ~orchAwaiting /\ ~orchFailed
PostsUnmounted == postStatus = "absent" /\ ~postError /\ ~postFailed

CreationPage == OrchestratorUnmounted /\ PostsUnmounted /\ NextCreation
OrchestratorPage == CreationUnmounted /\ PostsUnmounted /\ NextOrchestrator
PostsPage == CreationUnmounted /\ OrchestratorUnmounted /\ NextPost

NextConsumers == CreationPage \/ OrchestratorPage \/ PostsPage

SpecConsumers == Init /\ [][NextConsumers]_vars

\* ------------------------------------------------------------------ claims
\* EventSources the manager created that are open or connecting
OpenConnections == (IF IsLive(eventSource) THEN 1 ELSE 0) + Cardinality(orphans)

\* C1: whatever subscribe, unsubscribe handles, transport opens and errors, reconnect
\* timers, heartbeat checks, disconnect() and destroy() have run, also from inside a
\* subscriber callback or a state listener, at most one EventSource created by the
\* manager is open or connecting.
C1_AtMostOneOpen == OpenConnections <= 1

Returning(op) == TopIs("return") /\ Top.s = op

\* C2: with callers that call from outside callbacks, a connection the manager holds
\* open or connecting carries in its URL the identifiers subscribed now, in the order
\* of the registry, whichever of the backoff timer, the heartbeat check, a subscribe or
\* an unsubscribe handle made it; and when subscribe returns there is exactly one
\* connection, open or connecting, whose list holds the identifier just subscribed
\* (so, after three subscribes, all three).
C2_UrlIsSubscriptionSet ==
  /\ IsLive(eventSource) => eventSource.url = subscriptionKeys
  /\ Returning("subscribe") =>
       /\ IsLive(eventSource)
       /\ InSeq(Top.r, eventSource.url)
       /\ OpenConnections = 1

\* The third of three identifiers is subscribed while the connection for the first two
\* was open: the new connection lists all three.
C2_ThreeSubscribed ==
  /\ Returning("subscribe")
  /\ Top.snap.eventSource.rs = "open"
  /\ Len(Top.snap.subscriptionKeys) = 2
  /\ Len(eventSource.url) = 3
  /\ eventSource.rs = "connecting"

Invoking == TopIs("subscriber") /\ Top.i = 0

\* C4: a callback invoked for a frame of R is not one whose unsubscribe handle for R
\* had run when the frame arrived, unless it was subscribed to R again; and while the
\* Set the frame is dispatched to is still the one registered under R, it is not one
\* whose handle has run during the dispatch either.  Handles run from inside callbacks
\* and handles run again are among the steps.
C4_NoCallbackAfterUnsubscribe ==
  /\ Invoking => <<Top.r, Top.c>> \notin staleAtFrame
  /\ (Invoking /\ stack[2].s = "live") => <<Top.r, Top.c>> \notin unsubscribed

\* A frame's dispatch ended, and a callback registered when the frame arrived was not
\* invoked, its handle having been run by another callback during the dispatch.
C4_UnsubscribedDuringDispatch ==
  /\ TopIs("dispatched")
  /\ \E c \in registeredAtFrame : <<Top.r, c>> \in unsubscribed /\ invoked[c] = 0

\* C5: the registry holds an identifier exactly when its callback set is not empty; a
\* callback whose handle has run is in no set; and when the handle that removed the
\* last identifier, run from outside a callback, returns with the registry empty, no
\* connection is held, no reconnect timer is pending and the state is DISCONNECTED.
C5_NoEmptyCallbackSet ==
  /\ \A r \in Resources : InSeq(r, subscriptionKeys) <=> subscriptions[r] # <<>>
  /\ \A p \in unsubscribed : ~InSeq(p[2], subscriptions[p[1]])
  /\ (Returning("unsubscribe") /\ Top.i = 1 /\ subscriptionKeys = <<>>) =>
       /\ eventSource = NullES
       /\ reconnectTimeout # "pending"
       /\ connectionState = "DISCONNECTED"

\* The handle of the last callback returns, and the connection was open when it ran.
C5_LastUnsubscribed ==
  /\ Returning("unsubscribe")
  /\ Top.i = 1
  /\ subscriptionKeys = <<>>
  /\ Top.snap.eventSource.rs = "open"

\* The attempts are used up: state ERROR, the connection closed by the transport
Terminal(s) ==
  /\ s.connectionState = "ERROR"
  /\ s.reconnectAttempts >= maxReconnectAttempts
  /\ s.eventSource.rs = "closed"

TerminalError == Terminal(Cur)

\* A transport error closes the held connection; the held connection opens
FatalErrorStep == IsLive(eventSource) /\ eventSource'.rs = "closed"
OpenStep == eventSource.rs = "connecting" /\ eventSource'.rs = "open"

\* min(1000 * 2^k, 30000) for k = 0..9
ClaimedDelays == <<1000, 2000, 4000, 8000, 16000, 30000, 30000, 30000, 30000, 30000>>

C7_TerminalUntilSubscribe ==
  /\ TerminalError => (reconnectTimeout # "pending" /\ ~heartbeatTimer)
  /\ (Returning("unsubscribe") /\ Terminal(Top.snap)) =>
       /\ connectionState = "ERROR"
       /\ eventSource = Top.snap.eventSource

\* No connection, no timers
Quiet ==
  /\ connectionState = "DISCONNECTED"
  /\ eventSource = NullES
  /\ reconnectTimeout # "pending"
  /\ ~heartbeatTimer

\* No callback called into the manager while the returning call ran
Undisturbed == reentrant = Top.snap.reentrant

\* C8: when disconnect() returns the manager is quiet, with the registry and the
\* listeners it had; when destroy() returns it is quiet with an empty registry and no
\* listeners; and no subscriber callback is invoked after destroy() has returned.
C8_DisconnectAndDestroy ==
  /\ (Returning("disconnect") /\ Undisturbed) =>
       /\ Quiet
       /\ subscriptionKeys = Top.snap.subscriptionKeys
       /\ subscriptions = Top.snap.subscriptions
       /\ stateChangeListeners = Top.snap.stateChangeListeners
  /\ (Returning("destroy") /\ Undisturbed) =>
       /\ Quiet
       /\ subscriptionKeys = <<>>
       /\ subscriptions = EmptySubscriptions
       /\ stateChangeListeners = <<>>
  /\ Invoking => ~afterDestroy

\* What the claims call a retryable outcome: 5xx or 429, a timeout, a network failure
ClaimedRetryable ==
  {Timeout, Network} \cup {Status(n) : n \in {m \in Statuses : m = 429 \/ m >= 500}}

\* C9: every attempt runs under an abort timer set with it and no longer pending when
\* it has ended, and a request whose every attempt failed with a retryable outcome
\* made exactly retryAttempts fetches (the option, else the default 3) and failed.
C9_AttemptsAreRetryAttempts ==
  /\ httpPhase = "fetching" => (timeoutId /\ timersStarted = fetches)
  /\ httpPhase \in {"waiting", "done"} => ~timeoutId
  /\ (httpPhase = "done" /\ outcomes \subseteq ClaimedRetryable) =>
       /\ fetches = (IF optRetryAttempts.defined THEN optRetryAttempts.value ELSE 3)
       /\ result \notin {"none", "ok"}

\* A request with retryAttempts = 3 that met 503 and nothing else has ended
Only503 ==
  /\ httpPhase = "done"
  /\ optRetryAttempts = Given(3)
  /\ optRetryDelay.defined
  /\ outcomes = {Status(503)}

Failed == httpPhase = "done" /\ result \notin {"none", "ok"}

\* Another attempt may still be made after the current one
AttemptsRemain == attempt < RetryAttempts(optRetryAttempts)

\* The class the claims give the error of a response by its status code
ClaimedClass(statusCode) ==
  CASE statusCode = UNAUTHORIZED -> "UnauthorizedError"
    [] statusCode = FORBIDDEN -> "ForbiddenError"
    [] statusCode = NOT_FOUND -> "NotFoundError"
    [] statusCode = UNPROCESSABLE_ENTITY -> "ValidationError"
    [] statusCode = TOO_MANY_REQUESTS -> "RateLimitError"
    [] statusCode >= 500 -> "ServerError"
    [] OTHER -> "ApiError"

\* C11: an attempt that failed is followed by another one exactly when attempts remain
\* and the failure was a timeout, a network failure, 429 or a 5xx status; an error
\* response is surfaced as the error classified from its status, every 5xx as ServerError.
C11_RetriedIffRetryable ==
  /\ httpPhase = "waiting" => (lastOutcome \in ClaimedRetryable /\ AttemptsRemain)
  /\ Failed => ~(lastOutcome \in ClaimedRetryable /\ AttemptsRemain)
  /\ (Failed /\ lastOutcome.kind = "status") => result = ClaimedClass(lastOutcome.status)

\* C12: a request that ended on status 401 removed the stored token once and dispatched
\* 'auth:logout' once, and the token is gone; a request that is not over, or that ended
\* any other way, dispatched nothing and removed nothing.
C12_LogoutOnceOn401 ==
  /\ httpPhase \in {"fetching", "waiting"} => (logouts = 0 /\ removals = 0)
  /\ httpPhase = "done" =>
       IF lastOutcome = Status(UNAUTHORIZED)
         THEN logouts = 1 /\ removals = 1 /\ ~token
         ELSE logouts = 0 /\ removals = 0

\* A request met 503, was retried, and ended on 401: one logout, no token
C12_LoggedOutAfterRetry ==
  /\ httpPhase = "done"
  /\ lastOutcome = Status(UNAUTHORIZED)
  /\ Status(SERVICE_UNAVAILABLE) \in outcomes
  /\ fetches >= 2
  /\ logouts = 1
  /\ ~token

\* C16: a request that failed on an error response had every registered error
\* interceptor invoked once, in registration order, before the error was surfaced.
C16_AllInterceptorsInvoked ==
  (Failed /\ lastOutcome.kind = "status") => intercepted = errorInterceptors

\* The call of a caller ended in a request interceptor, before the cache
Intercepted(call) == ~call.network /\ call.outcome.kind = "error"

\* A GET in progress or just ended that may use the cache
CachedGet(call) ==
  /\ call.phase # "idle"
  /\ call.method = "GET"
  /\ ~call.skipCache
  /\ ~Intercepted(call)

\* C13: a GET that started while an entry of its URL, cached with any payload p, was
\* no older than its TTL made no network call and returned p; a GET that started when
\* the entry was older evicted it and made a network call; a call with another method
\* made a network call, and no entry is cached under another method.
C13_CacheWithinTTL ==
  /\ \A c \in Callers :
       LET call == calls[c]
       IN /\ (CachedGet(call) /\ call.atStart = "fresh") =>
               (~call.network /\ call.outcome = Data(call.expected))
          /\ (CachedGet(call) /\ call.atStart = "expired") =>
               (call.evicted /\ call.network)
          /\ (call.phase # "idle" /\ call.method # "GET" /\ ~Intercepted(call)) =>
               call.network
  /\ \A k \in DOMAIN cache : k[1] # "GET" => ~cache[k].present

\* C14: a call of request that has ended has exactly one outcome, the parsed body or
\* an error of the ApiError taxonomy, and a call that has not ended has none.
C14_TypedOutcome ==
  \A c \in Callers :
    LET call == calls[c]
    IN IF call.phase = "done"
         THEN \/ call.outcome.kind = "data"
              \/ call.outcome.kind = "error" /\ call.outcome.class \in ApiErrors
         ELSE call.outcome = NoOutcome

\* C17: two identical GET requests in flight at the same time share one network call.
C17_IdenticalGetsShareOneCall ==
  \A c1, c2 \in Callers :
    (/\ c1 # c2
     /\ calls[c1].phase = "fetching" /\ calls[c2].phase = "fetching"
     /\ calls[c1].method = "GET" /\ calls[c2].method = "GET"
     /\ calls[c1].url = calls[c2].url
     /\ calls[c1].skipCache = calls[c2].skipCache
     /\ calls[c1].optCacheTTL = calls[c2].optCacheTTL)
      => ~(calls[c1].network /\ calls[c2].network)

\* C15: no GET of a read endpoint is answered from a cache entry whose response was
\* fetched before a mutation of that endpoint, made by a service operation, completed.
C15_NoStaleReadAfterMutation ==
  \A c \in Callers : ~calls[c].stale

\* C18: when the events pending, generating_images, images_ready, images_ready (the
\* last two with the four avatar URLs) were received after handleStart, the step is
\* select_avatar, the avatar list is the four URLs and no avatar is selected; and the
\* second images_ready changed nothing and started no call.
C18_ImagesReadyIdempotent ==
  /\ [](scenario = Len(ClaimedSequence) =>
          /\ step = "select_avatar"
          /\ session.present
          /\ session.avatar_urls = AvatarUrls.value
          /\ selectedAvatar = 0)
  /\ [][(scenario = Len(ClaimedSequence) - 1 /\ scenario' = Len(ClaimedSequence)) =>
          UNCHANGED <<step, session, selectedAvatar, error, isLoadingSession, awaiting>>]_vars

\* The whole sequence was received after a handleStart
C18_SequenceReceived ==
  /\ scenario = Len(ClaimedSequence)
  /\ session.status = "images_ready"
  /\ Len(session.avatar_urls) = NumAvatars

\* How far a step or a status is in its flow
StepRank(st) ==
  CASE st = "input" -> 0
    [] st = "generating_images" -> 1
    [] st = "select_avatar" -> 2
    [] st = "generating_persona" -> 3
    [] st = "review" -> 4
    [] OTHER -> 5
PostRank(status) ==
  CASE status = "absent" -> 0
    [] status = "pending" -> 1
    [] status = "generating_story" -> 2
    [] status = "generating_images" -> 3
    [] status = "ready" -> 4
    [] status = "generating_video" -> 5
    [] status = "video_ready" -> 6
    [] OTHER -> 7

\* C19: a push event that is not a terminal failure never moves the step of the
\* creation flow, the step of the orchestrator flow or the status of a post backwards.
C19_NoBackwardStep ==
  [][/\ (StatusUpdate /\ session'.status # "failed") => StepRank(step') >= StepRank(step)
     /\ (handleSSE /\ ~orchFailed') => currentStep' >= currentStep
     /\ (PostUpdate /\ postStatus' \notin PostFailures) =>
          PostRank(postStatus') >= PostRank(postStatus)]_vars

\* C20: while a learned terminal failure stands, an error message is shown and nothing
\* is generating or loading; and no push event changes the step or the status.
C20_FailureIsTerminal ==
  /\ [](/\ creationFailed =>
             (error # "null" /\ step \notin {"generating_images", "generating_persona"})
        /\ orchFailed => (orchError /\ ~loading)
        /\ postFailed => postStatus \in PostFailures)
  /\ [][/\ (StatusUpdate /\ creationFailed) =>
             (step' = step /\ session'.status = session.status)
        /\ (handleSSE /\ orchFailed) => (currentStep' = currentStep /\ loading' = loading)
        /\ (PostUpdate /\ postFailed) => postStatus' = postStatus]_vars

\* The phase of the server that an event of the orchestrator reports
EventPhase(eventType) ==
  CASE eventType = "orch_planning" -> "planning"
    [] eventType = "orch_plan_ready" -> "plan_review"
    [] eventType = "orch_researching" -> "research"
    [] eventType = "orch_research_ready" -> "selection"
    [] eventType = "orch_generating" -> "generation"
    [] eventType = "orch_post_ready" -> "complete"
    [] OTHER -> "error"

\* C21: the step a flow has after a push event told it a status or a phase is the step
\* the restore on mount sets for the same status or phase.
C21_SameStepFromPushAndRestore ==
  [][/\ (StatusUpdate /\ session'.status # "complete") =>
          step' = RestoredStep(session'.status, "input")
     /\ \A eventType \in OrchestratorEvents :
          handleEvent(eventType) => currentStep' = phaseToStep(EventPhase(eventType))]_vars

\* C22: when the session of the backend has reached images_ready (persona_ready) and
\* stays there, the step of the page becomes select_avatar (review).
C22_MirrorCatchesUp ==
  /\ (server = "images_ready") ~> (step = "select_avatar" \/ server # "images_ready")
  /\ (server = "persona_ready") ~> (step = "review")

\* The changes of state the documented machine has for a connection that fails and is
\* opened again, the calls of subscribe, unsubscribe, disconnect and destroy apart
TransportEdges ==
  {<<"CONNECTING", "CONNECTED">>, <<"CONNECTED", "RECONNECTING">>,
   <<"ERROR", "RECONNECTING">>, <<"RECONNECTING", "CONNECTING">>}
    \cup {<<from, "ERROR">> : from \in {"CONNECTING", "CONNECTED", "RECONNECTING"}}

\* A call of the public interface is running
InApiCall(stk) == \E k \in DOMAIN stk : stk[k].op = "return"

\* C23: after a transport error the state is ERROR and then RECONNECTING, with the one
\* timer set to min(initialReconnectDelay * 2^attempt, maxReconnectDelay); from there a
\* listener sees CONNECTING and then CONNECTED: outside the calls of the public
\* interface, every change of state a listener sees is an edge of the documented machine.
C23_ReconnectPath ==
  /\ [](Idle /\ connectionState = "RECONNECTING" =>
          /\ reconnectTimeout = "pending"
          /\ timerDelay = ReconnectDelay(reconnectAttempts - 1))
  /\ [][(/\ stateChangeListeners # <<>>
         /\ connectionState' # connectionState
         /\ ~InApiCall(stack')) =>
          <<connectionState, connectionState'>> \in TransportEdges]_vars

\* C24: while the connection is open, and only then, the heartbeat interval is set; a
\* check that finds more than heartbeatTimeout passed since the open or the last frame
\* closes the connection and opens one on the identifiers subscribed now, the count of
\* reconnect attempts as it was; a check that finds less leaves the connection alone.
C24_HeartbeatForcesReconnectOnlyWhenSilent ==
  /\ [](Idle => (heartbeatTimer <=> eventSource.rs = "open"))
  /\ [][TimedHeartbeatCheck =>
          /\ sinceFrame * TimeUnit > heartbeatTimeout =>
               /\ eventSource' = [rs |-> "connecting", url |-> subscriptionKeys]
               /\ reconnectAttempts' = reconnectAttempts
          /\ sinceFrame * TimeUnit < heartbeatTimeout =>
               UNCHANGED <<eventSource, heartbeatTimer, connectionState>>]_vars

\* The order of the four effects of a reset
ClaimedResetOrder == <<"delete", "clear", "unsubscribe", "initial">>

\* C25: a reset requests the deletion, clears the stored id, unsubscribes from the old
\* channel and returns to step 1, in this order; and afterwards the channel of the old
\* id is not subscribed.
C25_ResetOrder ==
  /\ \E n \in 0..Len(ClaimedResetOrder) : resetLog = SubSeq(ClaimedResetOrder, 1, n)
  /\ unsubRef # 0 => unsubRef = sessionId

\* C26: at step 2, an edit of the plan made since the plan was loaded is not changed
\* by an event or by the response of the refresh an event started (every plan of the
\* backend holds the edited task).
C26_EditsSurvivePush ==
  [][(/\ OrchestratorEvent \/ SessionResponse
      /\ currentStep = 2
      /\ editingPlan.name = "edited") => editingPlan' = editingPlan]_vars

\* C27: the session shown is the one of the current sessionId: a response is applied
\* only if it was requested for the sessionId current when it arrives.
C27_ResponseOfCurrentSession == orchSession.present => orchSession.id = sessionId

\* C28: a GET answered from the cache gets a response that was fetched with the token
\* stored when the GET was made.
C28_CacheOfTheSameBearer ==
  (/\ calls[1].phase = "done"
   /\ ~calls[1].network
   /\ calls[1].outcome.kind = "data") => cachedUnder = sentWith

\* C29: a reconnect timer is pending only while the manager holds no connection that
\* is open or connecting; so no timer that fires closes such a connection.
C29_TimerOnlyWhileUnconnected ==
  /\ [](reconnectTimeout = "pending" => ~IsLive(eventSource))
  /\ [][TimerFires => ~IsLive(eventSource)]_vars

\* C30: when subscribe or an unsubscribe handle returns and the identifiers subscribed
\* are the ones subscribed before the call, a connection that was open is the one held,
\* and the heartbeat interval and the state are as they were.
C30_ReconnectOnlyOnNewIdentifiers ==
  (/\ Returning("subscribe") \/ Returning("unsubscribe")
   /\ SeqToSet(Top.snap.subscriptionKeys) = SeqToSet(subscriptionKeys)
   /\ Top.snap.eventSource.rs = "open") =>
    /\ eventSource = Top.snap.eventSource
    /\ heartbeatTimer = Top.snap.heartbeatTimer
    /\ connectionState = Top.snap.connectionState

====

